---- MODULE Spec2Model ----
(***************************************************************************)
(* A state-machine model of the DANE verification library ssl_dane.c:     *)
(* the TLSA record store (SSL_dane_add_tlsa), the matching engine (match), *)
(* the chain walker and synthesizer (set_trust_anchor, ta_signed,          *)
(* wrap_cert, wrap_key, grow_chain), the hostname matcher (name_check,     *)
(* match_name) and the orchestrator (verify_cert, verify_chain), for one   *)
(* connection handle.                                                      *)
(*                                                                         *)
(* Byte strings are sequences of naturals.  Names (X509_NAME values and    *)
(* host names) are sequences of one-character strings.  A C pointer that   *)
(* may be NULL is modelled by an "alloc" flag beside the value, or by the  *)
(* index 0 where the pointer walks a list.                                 *)
(***************************************************************************)
EXTENDS Integers, Sequences, FiniteSets, TLC

(***************************************************************************)
(* Bounds of the model.                                                    *)
(***************************************************************************)
\* Association records one connection may hold.
MaxRecords == 2
\* Handshake verifications run on one connection (renegotiations included).
MaxVerify == 2
\* Threads that call SSL_dane_library_init, and the calls each one makes.
NThreads == 3
MaxCalls == 2

(***************************************************************************)
(* Constants of ssl_dane.h (the header is not among the sources; the       *)
(* values are those of the TLSA usage and selector fields).                *)
(***************************************************************************)
SSL_DANE_USAGE_LIMIT_ISSUER == 0
SSL_DANE_USAGE_LIMIT_LEAF == 1
SSL_DANE_USAGE_TRUSTED_CA == 2
SSL_DANE_USAGE_FIXED_LEAF == 3
SSL_DANE_USAGE_LAST == SSL_DANE_USAGE_FIXED_LEAF
SSL_DANE_SELECTOR_CERT == 0
SSL_DANE_SELECTOR_SPKI == 1
SSL_DANE_SELECTOR_LAST == SSL_DANE_SELECTOR_SPKI

MATCHED_CERT == SSL_DANE_SELECTOR_CERT + 1
MATCHED_PKEY == SSL_DANE_SELECTOR_SPKI + 1

Usages == 0 .. SSL_DANE_USAGE_LAST

(***************************************************************************)
(* Names.                                                                  *)
(***************************************************************************)
NoName == << >>
N_ee == <<"e", "e">>
N_ica == <<"i", "c", "a">>
N_root == <<"r", "o", "o", "t">>
N_ss == <<"s", "s">>
N_xa == <<"x", "a">>
N_xb == <<"x", "b">>
\* host names: "w.e.c" stands for www.example.com, "e.c" for example.com
H_wec == <<"w", ".", "e", ".", "c">>
H_ec == <<"e", ".", "c">>

(***************************************************************************)
(* Public keys are small naturals; 0 is a key OpenSSL cannot use (an       *)
(* unsupported algorithm), SignKeyId the library's internal signing key.   *)
(***************************************************************************)
SignKeyId == 9
NoKey == 0

(***************************************************************************)
(* The certificates of the model: what the peer may present, what its      *)
(* trust store may hold and what TLSA records may carry.                   *)
(*   1  leaf "ee", issued by "ica"; its authority key identifier names      *)
(*      the issuer of "ica", "root"                                        *)
(*   2  intermediate "ica", issued by "root"                               *)
(*   3  self-signed "root"                                                 *)
(*   4  self-signed leaf "ss"                                              *)
(*   5  another certificate named "ica", with a key that did not sign 1    *)
(*   6  a certificate whose public key cannot be used                      *)
(*   7  "xa", issued by "xb"                                               *)
(*   8  "xb", issued by "xa" (an issuer cycle with 7); its authority key   *)
(*      identifier names "root"                                            *)
(***************************************************************************)
CertTable ==
  << [id |-> 1, subject |-> N_ee, issuer |-> N_ica, pubkey |-> 1, sigkey |-> 2,
      akid_issuer |-> N_root, san |-> <<[type |-> "DNS", ia5 |-> TRUE, data |-> H_wec]>>, cn |-> NoName],
     [id |-> 2, subject |-> N_ica, issuer |-> N_root, pubkey |-> 2, sigkey |-> 3,
      akid_issuer |-> NoName, san |-> << >>, cn |-> N_ica],
     [id |-> 3, subject |-> N_root, issuer |-> N_root, pubkey |-> 3, sigkey |-> 3,
      akid_issuer |-> NoName, san |-> << >>, cn |-> N_root],
     [id |-> 4, subject |-> N_ss, issuer |-> N_ss, pubkey |-> 4, sigkey |-> 4,
      akid_issuer |-> NoName, san |-> << >>, cn |-> H_ec],
     [id |-> 5, subject |-> N_ica, issuer |-> N_root, pubkey |-> 5, sigkey |-> 3,
      akid_issuer |-> NoName, san |-> << >>, cn |-> N_ica],
     [id |-> 6, subject |-> N_ss, issuer |-> N_ss, pubkey |-> NoKey, sigkey |-> 4,
      akid_issuer |-> NoName, san |-> << >>, cn |-> NoName],
     [id |-> 7, subject |-> N_xa, issuer |-> N_xb, pubkey |-> 7, sigkey |-> 8,
      akid_issuer |-> NoName, san |-> << >>, cn |-> H_wec],
     [id |-> 8, subject |-> N_xb, issuer |-> N_xa, pubkey |-> 8, sigkey |-> 7,
      akid_issuer |-> N_root, san |-> << >>, cn |-> N_xb] >>

CertIds == 1 .. Len(CertTable)
Cert(i) == CertTable[i]

(***************************************************************************)
(* The encoding and digest adapter (OpenSSL).                              *)
(***************************************************************************)
\* i2d_X509_PUBKEY / i2d_PUBKEY: the DER of a subject-public-key-info.
i2d_PUBKEY(key) == <<3, key>>

\* i2d_X509: the DER of a certificate; it embeds the DER of its public key.
i2d_X509(cert) == <<48, cert.id>> \o i2d_PUBKEY(cert.pubkey)

\* A decoder that takes the whole of data as consumed, trailing bytes too.
d2i_X509_lax(data) ==
  IF /\ Len(data) >= 4
     /\ data[1] = 48
     /\ data[2] \in 1 .. 6
     /\ data[3] = 3
  THEN [ok |-> TRUE, x |-> data[2], used |-> Len(data)]
  ELSE [ok |-> FALSE, x |-> 0, used |-> 0]

\* d2i_X509: decodes a certificate from the head of data and reports how
\* many bytes it consumed; trailing bytes are left to the caller.
d2i_X509(data) ==
  IF /\ Len(data) >= 4
     /\ data[1] = 48
     /\ data[2] \in CertIds
     /\ SubSeq(data, 3, 4) = i2d_PUBKEY(Cert(data[2]).pubkey)
  THEN [ok |-> TRUE, x |-> data[2], used |-> 4]
  ELSE [ok |-> FALSE, x |-> 0, used |-> 0]

\* d2i_PUBKEY: decodes a public key from the head of data.
d2i_PUBKEY(data) ==
  IF Len(data) >= 2 /\ data[1] = 3 /\ data[2] # NoKey /\ data[2] \in 1 .. 9
  THEN [ok |-> TRUE, k |-> data[2], used |-> 2]
  ELSE [ok |-> FALSE, k |-> NoKey, used |-> 0]

\* X509_get_pubkey: NoKey (a NULL pointer) when the key cannot be used.
X509_get_pubkey(cert) == cert.pubkey

\* The digests EVP_get_digestbyname knows; "none" is the NULL EVP_MD.
NoMD == "none"
NullName == "NULL"
EVP_get_digestbyname(mdname) ==
  IF mdname \in {"sha256", "sha512"} THEN mdname ELSE NoMD

\* EVP_MD_size, scaled down: 2 bytes for sha256, 3 for sha512.
EVP_MD_size(md) == IF md = "sha256" THEN 2 ELSE 3

\* EVP_Digest: a digest of EVP_MD_size(md) bytes, with no collision among the
\* byte strings of the model (their length and second byte tell them apart).
EVP_Digest(buf, md) ==
  LET h == 10 * Len(buf) + (IF Len(buf) >= 2 THEN buf[2] ELSE 0) IN
  IF md = "sha256" THEN <<100 + h, 1>> ELSE <<100 + h, 2, 0>>

\* The NULL data pointer of SSL_dane_add_tlsa.
NullData == <<-1>>

(***************************************************************************)
(* State.                                                                  *)
(***************************************************************************)
VARIABLES
  wrap_signed,   \* build: TRUE without X509_V_FLAG_PARTIAL_CHAIN (static int wrap_signed)
  err_lib_dane,  \* static int err_lib_dane
  dane_idx,      \* static int dane_idx
  signkey,       \* static EVP_PKEY *signkey: TRUE when a key was generated
  signmd,        \* static const EVP_MD *signmd: TRUE when set
  sctx_cb,       \* the SSL_CTX's app_verify_callback is verify_cert
  dane,          \* the SSL_DANE attached to the connection (alloc = FALSE: none)
  ctx,           \* the X509_STORE_CTX of the handshake being verified
  call,          \* the last API call, its arguments and what it returned
  nverify,       \* verifications started on the connection
  trust,         \* static ASN1_OBJECT *trust of grow_chain: TRUE when set
  ssl_idx,       \* static int ssl_idx of verify_cert
  thr,           \* the threads inside SSL_dane_library_init: where, last result, calls made
  lock,          \* CRYPTO_LOCK_SSL_CTX: the threads holding it for reading, the one writing
  ninit          \* how many times each part of the process-wide initialization ran

vars == <<wrap_signed, err_lib_dane, dane_idx, signkey, signmd, sctx_cb,
          dane, ctx, call, nverify, trust, ssl_idx, thr, lock, ninit>>

(***************************************************************************)
(* The per-connection state, struct SSL_DANE.  A stack or list pointer     *)
(* that may be NULL has an alloc flag; mhost = NoName is the NULL string.  *)
(***************************************************************************)
NoDane ==
  [alloc |-> FALSE, verify_set |-> FALSE,
   roots_alloc |-> FALSE, roots |-> << >>,
   chain_alloc |-> FALSE, chain |-> << >>,
   mhost |-> NoName, pkeys |-> << >>, certs |-> << >>, hosts |-> << >>,
   hosts_uninit |-> FALSE,   \* dane->hosts was never assigned
   selectors |-> [u \in Usages |-> << >>], depth |-> -1, multi |-> 0]

(***************************************************************************)
(* The TLSA record store: SSL_dane_add_tlsa.                                *)
(***************************************************************************)
\* LINSERT(h, e): e becomes the head of list h.
LINSERT(h, e) == <<e>> \o h

\* A scan that never finds the data.
DataScanNone(dlist, i, data) == FALSE

\* for (d = m->value->data; d; d = d->next): TRUE when an element has the
\* same length and bytes as data.
RECURSIVE DataScan(_, _, _)
DataScan(dlist, i, data) ==
  IF i > Len(dlist) THEN FALSE
  ELSE IF Len(dlist[i]) = Len(data) /\ dlist[i] = data THEN TRUE
  ELSE DataScan(dlist, i + 1, data)

\* for (m = s->value->mtype; m; m = m->next): the loop has no break, so it
\* ends by a duplicate's return or with m = NULL (index 0).
RECURSIVE MtypeScan(_, _, _, _)
MtypeScan(mlist, i, md, data) ==
  IF i > Len(mlist) THEN [dup |-> FALSE, m |-> 0]
  ELSE IF mlist[i].md = md /\ DataScan(mlist[i].data, 1, data)
       THEN [dup |-> TRUE, m |-> i]
       ELSE MtypeScan(mlist, i + 1, md, data)

\* for (s = dane->selectors[usage]; s; s = s->next): no break either; it
\* ends with s = NULL, and m as the last inner loop (or its initializer) left
\* it.  ms is the selector group m points into.
RECURSIVE SelectorScan(_, _, _, _, _, _)
SelectorScan(slist, i, m0, selector, md, data) ==
  IF i > Len(slist) THEN [dup |-> FALSE, s |-> 0, ms |-> 0, m |-> m0]
  ELSE IF slist[i].selector = selector
       THEN LET r == MtypeScan(slist[i].mtype, 1, md, data) IN
            IF r.dup THEN [dup |-> TRUE, s |-> i, ms |-> i, m |-> r.m]
            ELSE SelectorScan(slist, i + 1, r.m, selector, md, data)
       ELSE SelectorScan(slist, i + 1, m0, selector, md, data)

\* "Find insertion point and don't add duplicate elements."
FindInsertionPoint(slist, selector, md, data) ==
  SelectorScan(slist, 1, 0, selector, md, data)

\* The insertion after the scan: a new data element, under a new mtype
\* group when m is NULL, itself under a new selector group when s is NULL.
InsertRecord(slist, p, selector, md, data) ==
  IF p.m # 0
  THEN [slist EXCEPT ![p.ms].mtype[p.m].data = LINSERT(@, data)]
  ELSE LET newm == [md |-> md,
                    mdlen |-> IF md # NoMD THEN Len(data) ELSE 0,
                    data |-> <<data>>] IN
       IF p.s # 0
       THEN [slist EXCEPT ![p.s].mtype = LINSERT(@, newm)]
       ELSE LINSERT(slist, [selector |-> selector, mtype |-> <<newm>>])

\* The allocation sites of SSL_dane_add_tlsa that may fail.
AddFaults == {"none", "xklistinit", "list_alloc_d", "list_alloc_m", "list_alloc_s"}

AddRet(ret, err, d) == [ret |-> ret, err |-> err, dane |-> d]

\* The full-object branch (mdname == 0): decodes data as a certificate or a
\* public key.  Returns the error, or what to cache for usage 2.
DecodeFullObject(usage, selector, data, fault) ==
  IF selector = SSL_DANE_SELECTOR_CERT
  THEN LET r == d2i_X509(data) IN
       IF ~r.ok \/ Len(data) # r.used
       THEN [err |-> "DANE_R_BAD_CERT", xlist |-> 0, klist |-> NoKey]
       ELSE IF X509_get_pubkey(Cert(r.x)) = NoKey
       THEN [err |-> "DANE_R_BAD_CERT_PKEY", xlist |-> 0, klist |-> NoKey]
       ELSE IF usage = SSL_DANE_USAGE_TRUSTED_CA
       THEN IF fault = "xklistinit"
            THEN [err |-> "ERR_R_MALLOC_FAILURE", xlist |-> 0, klist |-> NoKey]
            ELSE [err |-> "", xlist |-> r.x, klist |-> NoKey]
       ELSE [err |-> "", xlist |-> 0, klist |-> NoKey]
  ELSE LET r == d2i_PUBKEY(data) IN
       IF ~r.ok \/ Len(data) # r.used
       THEN [err |-> "DANE_R_BAD_PKEY", xlist |-> 0, klist |-> NoKey]
       ELSE IF usage = SSL_DANE_USAGE_TRUSTED_CA
       THEN IF fault = "xklistinit"
            THEN [err |-> "ERR_R_MALLOC_FAILURE", xlist |-> 0, klist |-> NoKey]
            ELSE [err |-> "", xlist |-> 0, klist |-> r.k]
       ELSE [err |-> "", xlist |-> 0, klist |-> NoKey]

\* The argument checks without the comparison of the data length with the
\* digest size.
ValidateTlsaNoLength(usage, selector, mdname, data) ==
  LET md == IF mdname \in {"sha256", "sha512"} THEN mdname ELSE "none" IN
  IF usage > 3 THEN "DANE_R_BAD_USAGE"
  ELSE IF selector > 1 THEN "DANE_R_BAD_SELECTOR"
  ELSE IF mdname # "NULL" /\ md = "none" THEN "DANE_R_BAD_DIGEST"
  ELSE IF data = <<-1>> THEN "DANE_R_BAD_NULL_DATA"
  ELSE ""

\* A build in which the missing signing key is not noticed.
NoSignKeyIgnored(usage) == FALSE

\* The argument checks that come before anything is decoded or stored; ""
\* when they all pass.
ValidateTlsa(usage, selector, mdname, data) ==
  LET md == EVP_get_digestbyname(mdname) IN
  IF usage > SSL_DANE_USAGE_LAST THEN "DANE_R_BAD_USAGE"
  ELSE IF selector > SSL_DANE_SELECTOR_LAST THEN "DANE_R_BAD_SELECTOR"
  ELSE IF mdname # NullName /\ md = NoMD THEN "DANE_R_BAD_DIGEST"
  ELSE IF data = NullData THEN "DANE_R_BAD_NULL_DATA"
  ELSE IF mdname # NullName /\ Len(data) # EVP_MD_size(md) THEN "DANE_R_BAD_DATA_LENGTH"
  ELSE ""

\* "usage == SSL_DANE_USAGE_TRUSTED_CA && wrap_signed && !signkey"
NoSignKey(usage) ==
  usage = SSL_DANE_USAGE_TRUSTED_CA /\ wrap_signed /\ ~signkey

\* An insertion that caches the decoded object of a duplicate record too.
StoreTlsaDupCached(d, usage, selector, md, data, obj, fault) ==
  LET slist == d.selectors[usage]
      p == FindInsertionPoint(slist, selector, md, data)
      d1 == IF p.dup THEN d
            ELSE [d EXCEPT !.selectors[usage] = InsertRecord(slist, p, selector, md, data)] IN
  AddRet(1, "",
         IF obj.xlist # 0 THEN [d1 EXCEPT !.certs = LINSERT(@, obj.xlist)]
         ELSE IF obj.klist # NoKey THEN [d1 EXCEPT !.pkeys = LINSERT(@, obj.klist)]
         ELSE d1)

\* Insertion of a validated record, after the duplicate scan.
StoreTlsa(d, usage, selector, md, data, obj, fault) ==
  LET slist == d.selectors[usage]
      p == FindInsertionPoint(slist, selector, md, data) IN
  IF p.dup THEN AddRet(1, "", d)
  ELSE IF \/ fault = "list_alloc_d"
          \/ (p.m = 0 /\ fault = "list_alloc_m")
          \/ (p.m = 0 /\ p.s = 0 /\ fault = "list_alloc_s")
  THEN AddRet(0, "ERR_R_MALLOC_FAILURE", d)
  ELSE LET d1 == [d EXCEPT !.selectors[usage] =
                     InsertRecord(slist, p, selector, md, data)] IN
       AddRet(1, "",
              IF obj.xlist # 0 THEN [d1 EXCEPT !.certs = LINSERT(@, obj.xlist)]
              ELSE IF obj.klist # NoKey THEN [d1 EXCEPT !.pkeys = LINSERT(@, obj.klist)]
              ELSE d1)

SSL_dane_add_tlsa(d, usage, selector, mdname, data, fault) ==
  LET md == EVP_get_digestbyname(mdname)
      bad == ValidateTlsa(usage, selector, mdname, data) IN
  IF dane_idx < 0 \/ ~d.alloc THEN AddRet(-1, "DANE_R_DANE_INIT", d)
  ELSE IF bad # "" THEN AddRet(0, bad, d)
  ELSE IF NoSignKey(usage) THEN AddRet(0, "DANE_R_NOSIGN_KEY", d)
  ELSE IF mdname = NullName
  THEN LET obj == DecodeFullObject(usage, selector, data, fault) IN
       IF obj.err # "" THEN AddRet(0, obj.err, d)
       ELSE StoreTlsa(d, usage, selector, md, data, obj, fault)
  ELSE StoreTlsa(d, usage, selector, md, data,
                 [err |-> "", xlist |-> 0, klist |-> NoKey], fault)

(***************************************************************************)
(* The matching engine: match.                                             *)
(***************************************************************************)
\* The inner loops of match over the mtype groups of one selector group and
\* their data.  fault = "digest": EVP_Digest fails.
RECURSIVE MatchMtypes(_, _, _, _, _)
MatchMtypes(mlist, i, buf, selector, fault) ==
  IF i > Len(mlist) THEN 0
  ELSE LET m == mlist[i]
           cmpbuf == IF m.md # NoMD THEN EVP_Digest(buf, m.md) ELSE buf IN
       IF m.md # NoMD /\ fault = "digest" THEN -1
       ELSE IF DataScan(m.data, 1, cmpbuf) THEN selector + 1
       ELSE MatchMtypes(mlist, i + 1, buf, selector, fault)

\* A match that looks at the first selector group only.
MatchSelectorsFirst(slist, i, cert, fault) ==
  IF i > Len(slist) THEN 0
  ELSE MatchMtypes(slist[i].mtype, 1,
                   IF slist[i].selector = 0 THEN i2d_X509(cert) ELSE i2d_PUBKEY(cert.pubkey),
                   slist[i].selector, fault)

\* The outer loop of match over the selector groups.  fault = "malloc": the
\* buffer for the DER bytes cannot be allocated, and match returns 0.
RECURSIVE MatchSelectors(_, _, _, _)
MatchSelectors(slist, i, cert, fault) ==
  IF i > Len(slist) THEN 0
  ELSE LET sel == slist[i].selector
           buf == IF sel = SSL_DANE_SELECTOR_CERT
                  THEN i2d_X509(cert)
                  ELSE i2d_PUBKEY(cert.pubkey) IN
       IF fault = "malloc" THEN 0
       ELSE LET r == MatchMtypes(slist[i].mtype, 1, buf, sel, fault) IN
            IF r # 0 THEN r ELSE MatchSelectors(slist, i + 1, cert, fault)

\* match(slist, cert, depth): 0, MATCHED_CERT, MATCHED_PKEY or -1.
match(slist, cert, depth, fault) == MatchSelectors(slist, 1, cert, fault)

(***************************************************************************)
(* The hostname matcher: match_name, check_name, name_check.               *)
(***************************************************************************)
NUL == "NUL"
UpperChars == <<"A", "B", "C", "E", "W">>
LowerChars == <<"a", "b", "c", "e", "w">>
tolower(ch) ==
  IF \E i \in 1 .. Len(UpperChars) : UpperChars[i] = ch
  THEN LowerChars[CHOOSE i \in 1 .. Len(UpperChars) : UpperChars[i] = ch]
  ELSE ch

\* strcasecmp(a, b) == 0
strcaseeq(a, b) ==
  Len(a) = Len(b) /\ \A i \in 1 .. Len(a) : tolower(a[i]) = tolower(b[i])

\* The string that starts at the 0-based offset k of s (the C pointer s + k).
StrFrom(s, k) == SubSeq(s, k + 1, Len(s))

\* strchr(s, '.'): the 0-based offset of the first '.', or -1 for NULL.
strchr_dot(s) ==
  IF \E i \in 1 .. Len(s) : s[i] = "."
  THEN (CHOOSE i \in 1 .. Len(s) : s[i] = "." /\ \A j \in 1 .. i - 1 : s[j] # ".") - 1
  ELSE -1

\* A matcher without the wildcard rule.
MatchOneNameNoWildcard(certid, host, multi) ==
  LET match_subdomain == Len(host) >= 2 /\ host[1] = "."
      domain == IF match_subdomain THEN SubSeq(host, 2, Len(host)) ELSE host IN
  IF match_subdomain
  THEN /\ Len(certid) > Len(domain) + 1
       /\ certid[Len(certid) - Len(domain)] = "."
       /\ strcaseeq(SubSeq(certid, Len(certid) - Len(domain) + 1, Len(certid)), domain)
  ELSE strcaseeq(certid, domain)

\* One iteration of the loop of match_name: does certid match this host?
MatchOneName(certid, host, multi) ==
  LET match_subdomain == Len(host) >= 2 /\ host[1] = "."
      domain == IF match_subdomain THEN StrFrom(host, 1) ELSE host
      idlen == Len(certid)
      domlen == Len(domain) IN
  IF match_subdomain
  THEN /\ idlen > domlen + 1
       /\ certid[idlen - domlen] = "."
       /\ strcaseeq(StrFrom(certid, idlen - domlen), domain)
  ELSE \/ strcaseeq(certid, domain)
       \/ /\ Len(certid) >= 3
          /\ certid[1] = "*"
          /\ certid[2] = "."
          /\ strchr_dot(domain) >= 0
          /\ LET parent == StrFrom(domain, strchr_dot(domain))
                 wlen == Len(certid) - 1
                 plen == Len(parent) IN
             /\ wlen <= plen
             /\ strcaseeq(IF multi # 0 THEN StrFrom(parent, plen - wlen) ELSE parent,
                          StrFrom(certid, 1))

\* match_name(certid, dane): 1 when certid matches one of dane->hosts.
match_name(certid, d) ==
  IF \E i \in 1 .. Len(d.hosts) : MatchOneName(certid, d.hosts[i], d.multi)
  THEN 1 ELSE 0

\* check_name(name, len): the name, or NoName (NULL) when it is empty, holds
\* a character outside letters, digits, '.', '-', '*', or an inner NUL.
NameChars == {"a", "b", "c", "e", "w", "A", "B", "C", "E", "W", "0", "1", ".", "-", "*"}
RECURSIVE StripNuls(_)
StripNuls(name) ==
  IF Len(name) > 0 /\ name[Len(name)] = NUL
  THEN StripNuls(SubSeq(name, 1, Len(name) - 1))
  ELSE name
check_name(name) ==
  LET s == StripNuls(name) IN
  IF Len(s) <= 0 THEN NoName
  ELSE IF \A i \in 1 .. Len(s) : s[i] \in NameChars THEN s
  ELSE NoName

\* parse_dns_name(gn)
parse_dns_name(gn) ==
  IF gn.type # "DNS" THEN NoName
  ELSE IF ~gn.ia5 THEN NoName
  ELSE check_name(gn.data)

\* parse_subject_name(cert): the checked common name, NoName when there is none.
parse_subject_name(cert) ==
  IF cert.cn = NoName THEN NoName ELSE check_name(cert.cn)

\* A loop that takes note of a DNS alternative name only when it is valid.
RECURSIVE AltNameLoopValidOnly(_, _, _, _, _)
AltNameLoopValidOnly(d, gens, i, got_altname, fault) ==
  IF i > Len(gens)
  THEN [matched |-> 0, got_altname |-> got_altname, mhost |-> d.mhost]
  ELSE IF gens[i].type # "DNS" \/ parse_dns_name(gens[i]) = NoName
  THEN AltNameLoopValidOnly(d, gens, i + 1, got_altname, fault)
  ELSE IF match_name(parse_dns_name(gens[i]), d) # 0
  THEN [matched |-> 1, got_altname |-> 1, mhost |-> parse_dns_name(gens[i])]
  ELSE AltNameLoopValidOnly(d, gens, i + 1, 1, fault)

\* The loop of name_check over the subject alternative names.
RECURSIVE AltNameLoop(_, _, _, _, _)
AltNameLoop(d, gens, i, got_altname, fault) ==
  IF i > Len(gens)
  THEN [matched |-> 0, got_altname |-> got_altname, mhost |-> d.mhost]
  ELSE IF gens[i].type # "DNS" THEN AltNameLoop(d, gens, i + 1, got_altname, fault)
  ELSE LET certid == parse_dns_name(gens[i]) IN
       IF certid # NoName /\ match_name(certid, d) # 0
       THEN IF fault = "strdup"
            THEN [matched |-> -1, got_altname |-> 1, mhost |-> NoName]
            ELSE [matched |-> 1, got_altname |-> 1, mhost |-> certid]
       ELSE AltNameLoop(d, gens, i + 1, 1, fault)

\* name_check(dane, cert): the result and the matched host name it records.
name_check(d, cert, fault) ==
  LET a == AltNameLoop(d, cert.san, 1, 0, fault) IN
  IF a.got_altname = 0
  THEN LET certid == parse_subject_name(cert) IN
       IF certid # NoName /\ match_name(certid, d) # 0
       THEN [matched |-> 1, mhost |-> certid]
       ELSE [matched |-> 0, mhost |-> a.mhost]
  ELSE [matched |-> a.matched, mhost |-> a.mhost]

(***************************************************************************)
(* Certificates as the verification handles them.  A certificate made by   *)
(* the synthesizer has id 0.  NoCert is the NULL X509 pointer.             *)
(***************************************************************************)
NoCert ==
  [id |-> -1, subject |-> NoName, issuer |-> NoName, pubkey |-> NoKey,
   sigkey |-> NoKey, akid_issuer |-> NoName, san |-> << >>, cn |-> NoName]

\* X509_check_issued(issuer, subject) == X509_V_OK: the issuer's subject name
\* is the subject's issuer name.
X509_check_issued(issuer, subject) == issuer.subject = subject.issuer

\* X509_verify(cert, pkey) > 0: pkey verifies the signature of cert.
X509_verify(cert, pkey) == pkey # NoKey /\ cert.sigkey = pkey

(***************************************************************************)
(* A verification runs on a record w = [dane, ctx, trust, tr]: the state   *)
(* it can change, and tr, the trace of the steps it took.  f is the step   *)
(* that fails in this verification (an allocation, a digest, a signature), *)
(* named [site, kind]; NoFault when none does.                             *)
(***************************************************************************)
NoFault == [site |-> "none", kind |-> "none"]
Fault(site, kind) == [site |-> site, kind |-> kind]
Ret(ret, w) == [ret |-> ret, w |-> w]
\* A step of the trace: its name and, for a callback call with ok = 0, the
\* error and error depth it was called with.
Ev(name) == <<name, "", 0>>
Log(w, name) == [w EXCEPT !.tr = Append(@, Ev(name))]

\* The fault of match when called from site: "malloc", "digest" or "none".
MatchFault(f, site) == IF f.site = site THEN f.kind ELSE "none"

\* grow_chain(skptr, cert, add_trust), called from site; which names the
\* stack, has_cert is FALSE for a NULL cert.
grow_chain(w, which, cert, has_cert, add_trust, site, f) ==
  LET w1 == IF add_trust /\ ~w.trust /\ ~(f = Fault(site, "nid2obj"))
            THEN [w EXCEPT !.trust = TRUE] ELSE w
      isnull == IF which = "roots" THEN ~w.dane.roots_alloc ELSE ~w.dane.chain_alloc
      w2 == IF which = "roots"
            THEN [w1 EXCEPT !.dane.roots_alloc = TRUE]
            ELSE [w1 EXCEPT !.dane.chain_alloc = TRUE] IN
  IF add_trust /\ ~w.trust /\ f = Fault(site, "nid2obj") THEN Ret(0, w)
  ELSE IF isnull /\ f = Fault(site, "new") THEN Ret(0, w1)
  ELSE IF ~has_cert THEN Ret(1, w2)
  ELSE IF add_trust /\ f = Fault(site, "add_trust") THEN Ret(0, w2)
  ELSE IF f = Fault(site, "push") THEN Ret(0, w2)
  ELSE Ret(1, IF which = "roots"
              THEN [w2 EXCEPT !.dane.roots = Append(@, cert)]
              ELSE [w2 EXCEPT !.dane.chain = Append(@, cert)])

\* A wrap_key whose inner call is made with a key again, and so makes one
\* more: two fabricated intermediates above the subject, then the root.
wrap_key_deep(w, depth, key, subject, f) ==
  LET name == subject.issuer
      ca == [id |-> 0, subject |-> name, issuer |-> name, pubkey |-> key,
             sigkey |-> SignKeyId, akid_issuer |-> NoName, san |-> << >>, cn |-> NoName]
      w1 == Log(Log(Log([w EXCEPT !.dane.depth = IF @ < 0 THEN depth + 1 ELSE @],
                        "wrap_key"), "wrap_key"), "wrap_key(0)")
      Root(g) == grow_chain(g.w, "roots", [ca EXCEPT !.pubkey = SignKeyId], TRUE, TRUE,
                            "wrap_key_roots", f)
      Second(g) == Root(grow_chain(g.w, "chain", ca, TRUE, FALSE, "wrap_key_chain", f)) IN
  Second(grow_chain(w1, "chain", ca, TRUE, FALSE, "wrap_key_chain", f))

\* wrap_key(dane, depth, key, subject): fabricates the issuer of subject
\* around key (NoKey: around the signing key, a self-signed root).
RECURSIVE wrap_key(_, _, _, _, _)
wrap_key(w, depth, key, subject, f) ==
  LET w1 == Log([w EXCEPT !.dane.depth = IF @ < 0 THEN depth + 1 ELSE @],
                IF key # NoKey THEN "wrap_key" ELSE "wrap_key(0)")
      name == subject.issuer
      akid_name == subject.akid_issuer
      selfsigned == akid_name = NoName \/ akid_name = name
      cert == [id |-> 0, subject |-> name,
               issuer |-> IF akid_name # NoName THEN akid_name ELSE name,
               pubkey |-> IF key # NoKey THEN key ELSE SignKeyId,
               sigkey |-> IF wrap_signed THEN SignKeyId ELSE NoKey,
               akid_issuer |-> NoName, san |-> << >>, cn |-> NoName]
      nested == wrap_signed /\ key # NoKey /\ ~selfsigned IN
  IF f = Fault("wrap_key", "X509_new") THEN Ret(0, w1)
  ELSE IF \/ f = Fault("wrap_key", "build")
          \/ (key = NoKey /\ ~signkey)
          \/ (wrap_signed /\ (f = Fault("wrap_key", "X509_sign") \/ ~signkey))
  THEN Ret(0, w1)
  ELSE LET Push(inner) ==
             IF inner.ret = 0 THEN Ret(0, inner.w)
             ELSE IF nested
             THEN grow_chain(inner.w, "chain", cert, TRUE, FALSE, "wrap_key_chain", f)
             ELSE grow_chain(inner.w, "roots", cert, TRUE, TRUE, "wrap_key_roots", f) IN
       Push(IF nested THEN wrap_key(w1, depth + 1, NoKey, cert, f) ELSE Ret(1, w1))

\* A wrap_cert that trusts the anchor as it is, self-issued or not.
wrap_cert_direct(w, depth, tacert, subject, f) ==
  grow_chain(Log([w EXCEPT !.dane.depth = depth], "wrap_cert"), "roots", tacert, TRUE, TRUE,
             "wrap_cert_roots", f)

\* wrap_cert(dane, depth, tacert, subject)
wrap_cert(w, depth, tacert, subject, f) ==
  LET w1 == Log([w EXCEPT !.dane.depth = depth], "wrap_cert")
      \* the deep copy, signed again with the internal key
      copy == [tacert EXCEPT !.sigkey = SignKeyId] IN
  IF ~wrap_signed \/ X509_check_issued(tacert, tacert)
  THEN grow_chain(w1, "roots", tacert, TRUE, TRUE, "wrap_cert_roots", f)
  ELSE IF f = Fault("wrap_cert", "malloc") \/ f = Fault("wrap_cert", "d2i_X509")
  THEN Ret(0, w1)
  ELSE IF f = Fault("wrap_cert", "X509_sign") \/ ~signkey
  THEN Ret(0, grow_chain(w1, "chain", tacert, TRUE, FALSE, "wrap_cert_chain", f).w)
  ELSE LET Issue(g) == IF g.ret = 0 THEN Ret(0, g.w)
                        ELSE wrap_key(g.w, depth + 1, SignKeyId, copy, f) IN
       Issue(grow_chain(w1, "chain", copy, TRUE, FALSE, "wrap_cert_chain", f))

\* A first loop that gives up at the first anchor certificate it looks at.
TaCertLoopFirstOnly(w, i, cert, depth, f) ==
  IF i > Len(w.dane.certs) THEN [done |-> 0, w |-> w]
  ELSE LET x == Cert(w.dane.certs[i]) IN
       IF X509_check_issued(x, cert) /\ X509_verify(cert, X509_get_pubkey(x))
       THEN LET Done(r) == [done |-> IF r.ret # 0 THEN 1 ELSE -1, w |-> r.w] IN
            Done(wrap_cert(w, depth + 1, x, cert, f))
       ELSE [done |-> 0, w |-> w]

\* ta_signed, first loop: the anchor certificates of dane->certs.
RECURSIVE TaCertLoop(_, _, _, _, _)
TaCertLoop(w, i, cert, depth, f) ==
  IF i > Len(w.dane.certs) THEN [done |-> 0, w |-> w]
  ELSE LET x == Cert(w.dane.certs[i]) IN
       IF X509_check_issued(x, cert)
       THEN IF X509_get_pubkey(x) = NoKey \/ f = Fault("ta_signed", "X509_get_pubkey")
            THEN [done |-> -1, w |-> w]
            ELSE IF X509_verify(cert, X509_get_pubkey(x))
            THEN LET Done(r) == [done |-> IF r.ret # 0 THEN 1 ELSE -1, w |-> r.w] IN
                 Done(wrap_cert(w, depth + 1, x, cert, f))
            ELSE TaCertLoop(w, i + 1, cert, depth, f)
       ELSE TaCertLoop(w, i + 1, cert, depth, f)

\* ta_signed, second loop: the bare anchor keys of dane->pkeys.
RECURSIVE TaKeyLoop(_, _, _, _, _)
TaKeyLoop(w, i, cert, depth, f) ==
  IF i > Len(w.dane.pkeys) THEN [done |-> 0, w |-> w]
  ELSE IF X509_verify(cert, w.dane.pkeys[i])
  THEN LET Done(r) == [done |-> IF r.ret # 0 THEN 1 ELSE -1, w |-> r.w] IN
       Done(wrap_key(w, depth, w.dane.pkeys[i], cert, f))
  ELSE TaKeyLoop(w, i + 1, cert, depth, f)

\* ta_signed(dane, cert, depth): 1, 0 or -1.
ta_signed(w, cert, depth, f) ==
  LET Keys(x) == IF x.done # 0 THEN x ELSE TaKeyLoop(x.w, 1, cert, depth, f) IN
  Keys(TaCertLoop(Log(w, "ta_signed"), 1, cert, depth, f))

\* The index of the first certificate of the working chain that issued
\* cert; Len + 1 when none did (i == n).
FirstIssuer(in, cert) ==
  IF \E i \in 1 .. Len(in) : X509_check_issued(in[i], cert)
  THEN CHOOSE i \in 1 .. Len(in) :
         /\ X509_check_issued(in[i], cert)
         /\ \A j \in 1 .. i - 1 : ~X509_check_issued(in[j], cert)
  ELSE Len(in) + 1

\* A deletion that takes the first certificate of the working chain out,
\* whichever issuer was found.
sk_delete_first(in, i) == Tail(in)

\* sk_X509_delete(in, i)
sk_delete(in, i) == SubSeq(in, 1, i - 1) \o SubSeq(in, i + 1, Len(in))

\* The loop of set_trust_anchor: "for (n = sk_X509_num(in); n > 0; --n,
\* ++depth)".  Returns matched, the subject left unresolved (NoCert when
\* there is none) and the depth reached.
RECURSIVE WalkLoop(_, _, _, _, _)
WalkLoop(w, in, cert, depth, f) ==
  LET n == Len(in)
      i == FirstIssuer(in, cert) IN
  IF n <= 0 \/ i > n
  THEN [matched |-> 0, w |-> w, cert |-> cert, depth |-> depth]
  ELSE LET ca == in[i]
           rest == sk_delete(in, i)
           Wrapped(matched, r) ==
             [matched |-> IF r.ret # 0 THEN matched ELSE -1, w |-> r.w,
              cert |-> cert, depth |-> depth]
           Climb(g) ==
             IF g.ret # 0
             THEN IF ~X509_check_issued(ca, ca)
                  THEN WalkLoop(g.w, rest, ca, depth + 1, f)
                  ELSE [matched |-> 0, w |-> g.w, cert |-> NoCert, depth |-> depth]
             ELSE [matched |-> -1, w |-> g.w, cert |-> cert, depth |-> depth]
           Step(matched) ==
             IF matched = 0
             THEN Climb(grow_chain(w, "chain", ca, TRUE, FALSE, "set_trust_anchor_ca", f))
             ELSE IF matched = MATCHED_CERT
             THEN Wrapped(matched, wrap_cert(w, depth, ca, cert, f))
             ELSE IF matched = MATCHED_PKEY
             THEN IF \/ X509_get_pubkey(ca) = NoKey
                     \/ f = Fault("set_trust_anchor", "X509_get_pubkey")
                  THEN [matched |-> -1, w |-> w, cert |-> cert, depth |-> depth]
                  ELSE Wrapped(matched, wrap_key(w, depth, X509_get_pubkey(ca), cert, f))
             ELSE [matched |-> matched, w |-> w, cert |-> cert, depth |-> depth] IN
       Step(match(w.dane.selectors[SSL_DANE_USAGE_TRUSTED_CA], ca, depth + 1,
                  MatchFault(f, "set_trust_anchor")))

\* "X509_STORE_CTX_trusted_stack(ctx, dane->roots);
\*  X509_STORE_CTX_set_chain(ctx, dane->chain);"
InstallAnchors(w) ==
  [w EXCEPT !.ctx.trusted_set = TRUE, !.ctx.trusted = w.dane.roots,
            !.ctx.untrusted = w.dane.chain]

\* set_trust_anchor(ctx, dane, cert): > 0 for a match, 0 for none, -1.
set_trust_anchor(w, cert, f) ==
  LET Pushed(matched, r) == Ret(IF r.ret # 0 THEN matched ELSE -1, r.w)
      SelfSigned(w0, matched) ==
        IF matched > 0
        THEN Pushed(matched, grow_chain(w0, "roots", cert, TRUE, TRUE,
                                        "set_trust_anchor_leaf", f))
        ELSE Ret(matched, w0)
      Signed(t) == IF t.done <= 0 THEN Ret(t.done, t.w)
                   ELSE Ret(t.done, InstallAnchors(t.w))
      Walked(l) ==
        IF l.matched < 0 THEN Ret(l.matched, l.w)
        ELSE IF l.matched = 0
        THEN IF l.cert = NoCert THEN Ret(0, l.w)
             ELSE Signed(ta_signed(l.w, l.cert, l.depth, f))
        ELSE Ret(l.matched, InstallAnchors(l.w))
      Body(g) ==
        IF g.ret = 0 THEN Ret(-1, g.w)
        ELSE IF X509_check_issued(cert, cert)
        THEN SelfSigned(g.w, match(g.w.dane.selectors[SSL_DANE_USAGE_TRUSTED_CA], cert, 0,
                                   MatchFault(f, "set_trust_anchor")))
        ELSE IF f = Fault("set_trust_anchor", "sk_X509_dup") THEN Ret(-1, g.w)
        ELSE Walked(WalkLoop(g.w, g.w.ctx.untrusted, cert, 0, f)) IN
  Body(grow_chain(Log(w, "set_trust_anchor"), "chain", NoCert, FALSE, FALSE,
                  "set_trust_anchor_0", f))

(***************************************************************************)
(* The orchestrator: verify_cert, verify_chain, and the path builder       *)
(* X509_verify_cert they delegate to.                                      *)
(***************************************************************************)
NoCtx ==
  [active |-> FALSE, done |-> FALSE, cert |-> NoCert, untrusted |-> << >>,
   trusted_set |-> FALSE, trusted |-> << >>, chain |-> << >>,
   error |-> "X509_V_OK", error_depth |-> 0, verify |-> "internal_verify",
   cb_on_ok |-> 1, cb_on_err |-> 0, built |-> << >>, build_ok |-> TRUE,
   internal_ok |-> TRUE, ret |-> 0, tr |-> << >>]

\* ctx->verify_cb(ok, ctx): the application's callback.  It answers
\* cb_on_ok when called with ok = 1 and cb_on_err when called with ok = 0.
cb(ok, w) ==
  IF ok = 1 THEN Ret(w.ctx.cb_on_ok, Log(w, "cb(1)"))
  ELSE Ret(w.ctx.cb_on_err,
           [w EXCEPT !.tr = Append(@, <<"cb(0)", w.ctx.error, w.ctx.error_depth>>)])

SetError(w, err, depth) == [w EXCEPT !.ctx.error = err, !.ctx.error_depth = depth]

\* The builder's own verify function (internal_verify): its signature and
\* validity checks fail when ctx.internal_ok is FALSE, and the callback has
\* the last word.
internal_verify(w) ==
  LET w1 == Log(w, "verify") IN
  IF ~w1.ctx.internal_ok
  THEN LET Answer(c) == IF c.ret = 0 THEN Ret(0, c.w) ELSE cb(1, c.w) IN
       Answer(cb(0, SetError(w1, "X509_V_ERR_CERT_SIGNATURE_FAILURE",
                             Len(w1.ctx.chain) - 1)))
  ELSE cb(1, w1)

\* An end-entity check that never matches.
check_end_entity_off(w, cert, f) == Ret(0, w)

\* check_end_entity(ctx, dane, cert)
check_end_entity(w, cert, f) ==
  LET w1 == Log(w, "check_end_entity")
      Body(matched) ==
        IF matched > 0 /\ w.ctx.chain = << >>
        THEN IF f = Fault("check_end_entity", "sk_X509_new_null")
             THEN Ret(-1, w1)
             ELSE Ret(matched, Log([w1 EXCEPT !.ctx.chain = <<cert>>], "matched_ee"))
        ELSE Ret(matched, IF matched > 0 THEN Log(w1, "matched_ee") ELSE w1) IN
  Body(match(w.dane.selectors[SSL_DANE_USAGE_FIXED_LEAF], cert, 0,
             MatchFault(f, "check_end_entity")))

\* A loop that tries the usage-1 records on every certificate of the chain.
UsageLoopAnyDepth(w, n, f) ==
  IF \E k \in 0 .. Len(w.ctx.chain) - 1 :
       \/ match(w.dane.selectors[0], w.ctx.chain[k + 1], k, "none") > 0
       \/ match(w.dane.selectors[1], w.ctx.chain[k + 1], k, "none") > 0
  THEN 1 ELSE 0

\* The loop of verify_chain over the built chain, from its top to the leaf:
\* "while (!matched && --n >= 0)"; n is the value after the decrement.
RECURSIVE UsageLoop(_, _, _)
UsageLoop(w, n, f) ==
  IF n < 0 THEN 0
  ELSE LET issuer_rrs == w.dane.selectors[SSL_DANE_USAGE_LIMIT_ISSUER]
           leaf_rrs == w.dane.selectors[SSL_DANE_USAGE_LIMIT_LEAF]
           cert == w.ctx.chain[n + 1]
           Again(m2) == IF m2 # 0 THEN m2 ELSE UsageLoop(w, n - 1, f)
           Leaf(m1) == Again(IF m1 = 0 /\ n = 0 /\ leaf_rrs # << >>
                             THEN match(leaf_rrs, cert, 0, MatchFault(f, "verify_chain"))
                             ELSE m1) IN
       Leaf(IF issuer_rrs # << >>
            THEN match(issuer_rrs, cert, n, MatchFault(f, "verify_chain"))
            ELSE 0)

\* A hostname check whose result is ignored.
NameCheckStepSilent(w, f) == internal_verify(Log(w, "name_check"))

\* The hostname check of verify_chain and the call of the original verify.
NameCheckStep(w, f) ==
  LET Answer(c) == IF c.ret = 0 THEN Ret(0, c.w) ELSE internal_verify(c.w)
      Checked(matched, w1) ==
        IF matched < 0 THEN Ret(0, w1)
        ELSE IF matched = 0
        THEN Answer(cb(0, SetError(w1, "X509_V_ERR_HOSTNAME_MISMATCH", 0)))
        ELSE internal_verify(w1)
      Body(r) == Checked(r.matched, Log([w EXCEPT !.dane.mhost = r.mhost], "name_check")) IN
  Body(name_check(w.dane, w.ctx.cert, MatchFault(f, "name_check")))

\* The usage 0/1 constraint of verify_chain: the callback's answer when the
\* constraint fails, 1 when it passes, -1 for an error inside match.
UsageCheckStep(w, f) ==
  LET chain_length == Len(w.ctx.chain)
      n == IF w.dane.selectors[SSL_DANE_USAGE_LIMIT_ISSUER] # << >>
           THEN chain_length ELSE 1
      w1 == Log(w, "usage_check")
      Body(matched) ==
        IF matched < 0 THEN Ret(-1, w1)
        ELSE IF matched = 0
        THEN cb(0, SetError(w1, "X509_V_ERR_CERT_UNTRUSTED", chain_length - 1))
        ELSE Ret(1, Log(w1, "matched_pkix")) IN
  Body(UsageLoop(w, n - 1, f))

\* A verify_chain that goes on whatever the usage check answered.
verify_chain_no_gate(w, f) ==
  NameCheckStep(UsageCheckStep(Log(w, "verify_chain"), f).w, f)

\* verify_chain(ctx)
verify_chain(w, f) ==
  LET w0 == Log(w, "verify_chain") IN
  IF ~w0.dane.roots_alloc
  THEN LET Names(u) == IF u.ret <= 0 THEN Ret(0, u.w) ELSE NameCheckStep(u.w, f) IN
       Names(UsageCheckStep(w0, f))
  ELSE NameCheckStep(w0, f)

\* X509_verify_cert(ctx): the underlying path builder.  It assembles
\* ctx.built as ctx->chain; a failure of its own path and trust checks
\* (ctx.build_ok FALSE) goes to the callback; then it calls ctx->verify.
X509_verify_cert(w, f) ==
  LET w1 == Log(w, "X509_verify_cert") IN
  IF w1.ctx.cert = NoCert THEN Ret(-1, w1)
  ELSE LET w2 == [w1 EXCEPT !.ctx.chain = w1.ctx.built]
           Verify(pre) ==
             IF pre.ret = 0 THEN Ret(0, pre.w)
             ELSE IF pre.w.ctx.verify = "verify_chain" THEN verify_chain(pre.w, f)
             ELSE internal_verify(pre.w) IN
       Verify(IF ~w2.ctx.build_ok
              THEN cb(0, SetError(w2, "X509_V_ERR_UNABLE_TO_GET_ISSUER_CERT_LOCALLY",
                                  Len(w2.ctx.chain) - 1))
              ELSE Ret(1, w2))

\* A setup that runs the chain walker for usage-0 records as well.
TrustAnchorSetupAnyCa(w, cert, f) ==
  LET Build(ret, w1) ==
        IF ret < 0 THEN Ret(-1, w1)
        ELSE X509_verify_cert([w1 EXCEPT !.dane.verify_set = TRUE,
                                         !.ctx.verify = "verify_chain"], f)
      Body(t) == Build(t.ret, IF t.ret > 0 THEN Log(t.w, "matched_ta") ELSE t.w) IN
  Body(IF \/ w.dane.selectors[SSL_DANE_USAGE_TRUSTED_CA] # << >>
          \/ w.dane.selectors[SSL_DANE_USAGE_LIMIT_ISSUER] # << >>
       THEN set_trust_anchor(w, cert, f)
       ELSE Ret(0, w))

\* A setup that never runs the chain walker.
TrustAnchorSetupNoWalk(w, cert, f) ==
  X509_verify_cert([w EXCEPT !.dane.verify_set = TRUE, !.ctx.verify = "verify_chain"], f)

\* The tail of verify_cert: trust-anchor setup, then the delegated build.
TrustAnchorSetup(w, cert, f) ==
  LET Build(ret, w1) ==
        IF ret < 0 THEN Ret(-1, w1)
        ELSE X509_verify_cert([w1 EXCEPT !.dane.verify_set = TRUE,
                                         !.ctx.verify = "verify_chain"], f)
      Body(t) == Build(t.ret, IF t.ret > 0 THEN Log(t.w, "matched_ta") ELSE t.w) IN
  Body(IF w.dane.selectors[SSL_DANE_USAGE_TRUSTED_CA] # << >>
       THEN set_trust_anchor(w, cert, f)
       ELSE Ret(0, w))

\* verify_cert(ctx, unused_ctx)
verify_cert(w, f) ==
  LET cert == w.ctx.cert IN
  IF dane_idx < 0 THEN Ret(-1, w)
  ELSE IF ~w.dane.alloc \/ cert = NoCert THEN X509_verify_cert(w, f)
  ELSE IF w.dane.selectors[SSL_DANE_USAGE_FIXED_LEAF] # << >>
  THEN LET Leaf(e) == IF e.ret > 0 THEN cb(1, SetError(e.w, e.w.ctx.error, 0))
                       ELSE IF e.ret < 0 THEN Ret(-1, e.w)
                       ELSE TrustAnchorSetup(e.w, cert, f) IN
       Leaf(check_end_entity(w, cert, f))
  ELSE TrustAnchorSetup(w, cert, f)

(***************************************************************************)
(* Initialization and cleanup.                                             *)
(***************************************************************************)
\* host_list_init(src): each name is inserted at the head.
RECURSIVE host_list_init(_, _)
host_list_init(src, head) ==
  IF src = << >> THEN head
  ELSE host_list_init(Tail(src), LINSERT(head, Head(src)))

\* What the uninitialized dane->hosts may hold when SSL_dane_init is given a
\* NULL hostnames pointer: the field is never assigned.
UninitHosts == {<< >>, <<H_wec>>}

\* A connection initialization that does not look at dane_idx.
SSL_dane_init_unchecked(d, hostnames, garbage, fault) ==
  IF hostnames.null
  THEN AddRet(1, "", [NoDane EXCEPT !.alloc = TRUE, !.hosts = garbage,
                                    !.hosts_uninit = TRUE])
  ELSE IF host_list_init(hostnames.list, << >>) = << >>
  THEN AddRet(0, "ERR_R_MALLOC_FAILURE", NoDane)
  ELSE AddRet(1, "", [NoDane EXCEPT !.alloc = TRUE,
                                    !.hosts = host_list_init(hostnames.list, << >>)])

\* SSL_dane_init(ssl, sni_domain, hostnames); hostnames = [null, list].
\* garbage is what the malloc'ed structure held in dane->hosts.
SSL_dane_init(d, hostnames, garbage, fault) ==
  IF dane_idx < 0 THEN AddRet(-1, "DANE_R_LIBRARY_INIT", d)
  ELSE IF fault = "SSL_set_tlsext_host_name" THEN AddRet(0, "", d)
  ELSE IF fault = "OPENSSL_malloc" THEN AddRet(0, "ERR_R_MALLOC_FAILURE", d)
  ELSE IF fault = "SSL_set_ex_data" THEN AddRet(0, "ERR_R_MALLOC_FAILURE", d)
  ELSE LET fresh == [NoDane EXCEPT !.alloc = TRUE] IN
       IF hostnames.null
       THEN AddRet(1, "", [fresh EXCEPT !.hosts = garbage, !.hosts_uninit = TRUE])
       ELSE LET hosts == IF fault = "host_list_init" THEN << >>
                         ELSE host_list_init(hostnames.list, << >>) IN
            IF hosts = << >>
            THEN AddRet(0, "ERR_R_MALLOC_FAILURE", NoDane)   \* SSL_dane_cleanup(ssl)
            ELSE AddRet(1, "", [fresh EXCEPT !.hosts = hosts])

InitFaults == {"none", "SSL_set_tlsext_host_name", "OPENSSL_malloc",
               "SSL_set_ex_data", "host_list_init"}

\* SSL_dane_cleanup(ssl)
SSL_dane_cleanup(d) ==
  IF dane_idx < 0 \/ ~d.alloc THEN d ELSE NoDane

\* "if (dane->hosts) list_free(dane->hosts, ...)" reads a field that
\* SSL_dane_init left unassigned and, when the bytes found there are not
\* NULL, walks and frees whatever they point to.
CleanupUndefined(d) ==
  dane_idx >= 0 /\ d.alloc /\ d.hosts_uninit /\ d.hosts # << >>

(***************************************************************************)
(* The last API call: what was asked and what came back.                   *)
(***************************************************************************)
NoCall ==
  [op |-> "none", usage |-> 0, selector |-> 0, mdname |-> NullName,
   data |-> << >>, hostnames |-> [null |-> TRUE, list |-> << >>],
   ret |-> 0, err |-> ""]

(***************************************************************************)
(* Inputs.                                                                 *)
(***************************************************************************)
Tlsa(u, s, m, d) == [usage |-> u, selector |-> s, mdname |-> m, data |-> d]
DerOf(i) == i2d_X509(Cert(i))
SpkiOf(i) == i2d_PUBKEY(Cert(i).pubkey)

\* Well-formed records about the certificates of the model.
VerifyTlsa ==
  { Tlsa(3, 1, "sha256", EVP_Digest(SpkiOf(1), "sha256")),
    Tlsa(2, 0, NullName, DerOf(2)),
    Tlsa(2, 1, "sha256", EVP_Digest(SpkiOf(2), "sha256")),
    Tlsa(2, 0, "sha512", EVP_Digest(DerOf(4), "sha512")),
    Tlsa(0, 0, "sha256", EVP_Digest(DerOf(3), "sha256")),
    Tlsa(1, 0, NullName, DerOf(1)),
    Tlsa(1, 1, "sha256", EVP_Digest(SpkiOf(2), "sha256")) }

\* Records for the store: the same bytes under different usages, selectors
\* and matching types, and one of each way of being malformed.
StoreTlsaValid ==
  { Tlsa(1, 1, NullName, SpkiOf(1)),
    Tlsa(1, 1, "sha256", SpkiOf(1)),
    Tlsa(1, 0, "sha256", SpkiOf(1)),
    Tlsa(0, 1, "sha256", SpkiOf(1)),
    Tlsa(1, 1, "sha256", EVP_Digest(SpkiOf(1), "sha256")),
    Tlsa(1, 1, "sha512", EVP_Digest(SpkiOf(1), "sha512")),
    Tlsa(2, 0, NullName, DerOf(2)),
    Tlsa(2, 1, NullName, SpkiOf(2)),
    Tlsa(2, 1, "sha256", SpkiOf(2)),
    Tlsa(3, 0, NullName, DerOf(2)) }
StoreTlsaInvalid ==
  { Tlsa(4, 0, NullName, DerOf(2)),
    Tlsa(2, 2, NullName, DerOf(2)),
    Tlsa(2, 0, "bogus", DerOf(2)),
    Tlsa(2, 0, NullName, NullData),
    Tlsa(1, 1, "sha256", NullData),
    Tlsa(3, 1, "sha256", EVP_Digest(SpkiOf(1), "sha512")),
    Tlsa(2, 0, "sha512", SpkiOf(2)),
    Tlsa(1, 0, NullName, DerOf(1) \o <<0>>),
    Tlsa(1, 0, NullName, DerOf(6)),
    Tlsa(1, 0, NullName, SpkiOf(1)),
    Tlsa(1, 0, NullName, << >>),
    Tlsa(0, 0, "sha256", << >>),
    Tlsa(1, 1, NullName, i2d_PUBKEY(NoKey)),
    Tlsa(2, 1, NullName, SpkiOf(1) \o <<0>>),
    Tlsa(1, 1, NullName, DerOf(1)) }
StoreInputs == StoreTlsaValid \cup StoreTlsaInvalid

\* The hostnames argument of SSL_dane_init.
HostnameInputs ==
  { [null |-> TRUE, list |-> << >>],
    [null |-> FALSE, list |-> << >>],
    [null |-> FALSE, list |-> <<H_wec>>] }

\* The number of data elements a store holds.
RECURSIVE MtypeListCount(_)
MtypeListCount(mlist) ==
  IF mlist = << >> THEN 0 ELSE Len(Head(mlist).data) + MtypeListCount(Tail(mlist))
RECURSIVE SelectorListCount(_)
SelectorListCount(slist) ==
  IF slist = << >> THEN 0
  ELSE MtypeListCount(Head(slist).mtype) + SelectorListCount(Tail(slist))
UsageCount(d, u) == SelectorListCount(d.selectors[u])
RecordCount(d) == UsageCount(d, 0) + UsageCount(d, 1) + UsageCount(d, 2) + UsageCount(d, 3)

(***************************************************************************)
(* Handshakes: what the peer presents and how the application and the      *)
(* path builder answer.                                                    *)
(***************************************************************************)
SeqOf(ids) == [i \in 1 .. Len(ids) |-> Cert(ids[i])]

\* leaf, the chain the peer sent with it, the chain the builder assembles.
Presented ==
  { [cert |-> Cert(1), untrusted |-> SeqOf(u), built |-> SeqOf(b)] :
      u \in {<< >>, <<2, 3>>}, b \in {<<1>>, <<1, 2, 3>>} }
  \cup { [cert |-> Cert(4), untrusted |-> << >>, built |-> SeqOf(<<4>>)],
         [cert |-> NoCert, untrusted |-> << >>, built |-> << >>] }

\* The callback's answers to ok = 1 and to ok = 0.
Callbacks ==
  { [on_ok |-> 1, on_err |-> 0], [on_ok |-> 1, on_err |-> 1], [on_ok |-> 0, on_err |-> 0] }

VerifyFaults ==
  { NoFault } \cup
  { Fault("check_end_entity", k) : k \in {"malloc", "digest", "sk_X509_new_null"} } \cup
  { Fault("set_trust_anchor", k) : k \in {"malloc", "digest", "sk_X509_dup", "X509_get_pubkey"} } \cup
  { Fault("set_trust_anchor_0", "new"), Fault("set_trust_anchor_ca", "push") } \cup
  { Fault("set_trust_anchor_leaf", k) : k \in {"nid2obj", "new", "add_trust", "push"} } \cup
  { Fault("wrap_key", k) : k \in {"X509_new", "build", "X509_sign"} } \cup
  { Fault("wrap_cert", k) : k \in {"malloc", "d2i_X509", "X509_sign"} } \cup
  { Fault(s, k) : s \in {"wrap_key_roots", "wrap_cert_roots"}, k \in {"new", "push"} } \cup
  { Fault(s, "push") : s \in {"wrap_key_chain", "wrap_cert_chain"} } \cup
  { Fault("ta_signed", "X509_get_pubkey"), Fault("name_check", "strdup") } \cup
  { Fault("verify_chain", k) : k \in {"malloc", "digest"} }

Threads == 1 .. NThreads

(***************************************************************************)
(* The state machine.                                                      *)
(***************************************************************************)
Init ==
  /\ wrap_signed \in BOOLEAN
  /\ err_lib_dane = -1
  /\ dane_idx = -1
  /\ signkey = FALSE
  /\ signmd = FALSE
  /\ sctx_cb = FALSE
  /\ dane = NoDane
  /\ ctx = NoCtx
  /\ call = NoCall
  /\ nverify = 0
  /\ trust = FALSE
  /\ ssl_idx = -1
  /\ thr = [t \in Threads |-> [pc |-> "idle", ret |-> 0, ncalls |-> 0]]
  /\ lock = [readers |-> {}, writer |-> 0]
  /\ ninit = [lib |-> 0, key |-> 0, strings |-> 0, idx |-> 0]

Idle == ~ctx.active /\ call = NoCall

\* The application sets a connection up (SSL_dane_init, SSL_dane_add_tlsa)
\* before it starts the first handshake on it, as main() of connected.c does.
Setup == Idle /\ nverify = 0

\* dane_init() inside safe_init(): with WRAP_SIGNED the digest and the key
\* are set when signing is supported (SIGN_SUPPORT and a key that could be
\* generated); the index may not register.
LibraryInitRet ==
  IF dane_idx' >= 0
  THEN IF ~wrap_signed \/ (signmd' /\ signkey') THEN 1 ELSE 0
  ELSE -1

SSL_dane_library_init ==
  /\ Idle
  /\ IF err_lib_dane < 0
     THEN /\ err_lib_dane' = 1
          /\ \E support \in BOOLEAN :
               /\ signmd' = (signmd \/ (wrap_signed /\ support))
               /\ signkey' = (signkey \/ (wrap_signed /\ support))
          /\ dane_idx' \in {-1, 0}
     ELSE UNCHANGED <<err_lib_dane, signmd, signkey, dane_idx>>
  /\ call' = [NoCall EXCEPT !.op = "library_init", !.ret = LibraryInitRet,
                            !.err = IF LibraryInitRet < 0 THEN "DANE_R_DANE_SUPPORT" ELSE ""]
  /\ UNCHANGED <<thr, lock, ninit, wrap_signed, sctx_cb, dane, ctx, nverify, trust, ssl_idx>>

SSL_CTX_dane_init ==
  /\ Idle
  /\ sctx_cb' = (sctx_cb \/ dane_idx >= 0)
  /\ call' = [NoCall EXCEPT !.op = "ctx_init",
                            !.ret = IF dane_idx >= 0 THEN 1 ELSE -1,
                            !.err = IF dane_idx >= 0 THEN "" ELSE "DANE_R_LIBRARY_INIT"]
  /\ UNCHANGED <<thr, lock, ninit, wrap_signed, err_lib_dane, dane_idx, signkey, signmd, dane, ctx,
                 nverify, trust, ssl_idx>>

DaneInit(faults) ==
  /\ Setup
  /\ \E h \in HostnameInputs, g \in UninitHosts, fault \in faults :
       LET Done(r) ==
             /\ dane' = r.dane
             /\ call' = [NoCall EXCEPT !.op = "init", !.hostnames = h,
                                       !.ret = r.ret, !.err = r.err] IN
       Done(SSL_dane_init(dane, h, g, fault))
  /\ UNCHANGED <<thr, lock, ninit, wrap_signed, err_lib_dane, dane_idx, signkey, signmd, sctx_cb, ctx,
                 nverify, trust, ssl_idx>>

DaneCleanup ==
  /\ Idle
  /\ dane' = SSL_dane_cleanup(dane)
  /\ call' = [NoCall EXCEPT !.op = "cleanup",
                            !.err = IF CleanupUndefined(dane)
                                    THEN "undefined: free of uninitialized dane->hosts"
                                    ELSE ""]
  /\ UNCHANGED <<thr, lock, ninit, wrap_signed, err_lib_dane, dane_idx, signkey, signmd, sctx_cb, ctx,
                 nverify, trust, ssl_idx>>

AddTlsa(inputs, faults) ==
  /\ Setup
  /\ \E t \in inputs, fault \in faults :
       LET Done(r) ==
             /\ RecordCount(r.dane) <= MaxRecords
             /\ dane' = r.dane
             /\ call' = [NoCall EXCEPT !.op = "add_tlsa", !.usage = t.usage,
                                       !.selector = t.selector, !.mdname = t.mdname,
                                       !.data = t.data, !.ret = r.ret, !.err = r.err] IN
       Done(SSL_dane_add_tlsa(dane, t.usage, t.selector, t.mdname, t.data, fault))
  /\ UNCHANGED <<thr, lock, ninit, wrap_signed, err_lib_dane, dane_idx, signkey, signmd, sctx_cb, ctx,
                 nverify, trust, ssl_idx>>

\* The caller has looked at the result of the last call.
Return ==
  /\ call # NoCall
  /\ call' = NoCall
  /\ UNCHANGED <<thr, lock, ninit, wrap_signed, err_lib_dane, dane_idx, signkey, signmd, sctx_cb, dane,
                 ctx, nverify, trust, ssl_idx>>

\* The TLS stack received the peer's chain and set up an X509_STORE_CTX.
Handshake ==
  /\ Idle
  /\ sctx_cb
  /\ nverify < MaxVerify
  /\ \E p \in Presented, c \in Callbacks, bok \in BOOLEAN, iok \in {TRUE} :
       ctx' = [NoCtx EXCEPT !.active = TRUE, !.cert = p.cert,
                            !.untrusted = p.untrusted, !.built = p.built,
                            !.cb_on_ok = c.on_ok, !.cb_on_err = c.on_err,
                            !.build_ok = bok, !.internal_ok = iok]
  /\ nverify' = nverify + 1
  /\ UNCHANGED <<thr, lock, ninit, wrap_signed, err_lib_dane, dane_idx, signkey, signmd, sctx_cb, dane,
                 call, trust, ssl_idx>>

\* The TLS stack calls the application verify callback, verify_cert.
VerifyCert(faults) ==
  /\ ctx.active /\ ~ctx.done
  /\ \E f \in faults :
       LET Done(r) ==
             /\ dane' = r.w.dane
             /\ trust' = r.w.trust
             /\ ctx' = [r.w.ctx EXCEPT !.done = TRUE, !.ret = r.ret, !.tr = r.w.tr] IN
       Done(verify_cert([dane |-> dane, ctx |-> ctx, trust |-> trust, tr |-> << >>], f))
  /\ ssl_idx' = 0
  /\ UNCHANGED <<thr, lock, ninit, wrap_signed, err_lib_dane, dane_idx, signkey, signmd, sctx_cb, call,
                 nverify>>

\* X509_STORE_CTX_cleanup: the handshake is over.
CtxFree ==
  /\ ctx.active /\ ctx.done
  /\ ctx' = NoCtx
  /\ UNCHANGED <<thr, lock, ninit, wrap_signed, err_lib_dane, dane_idx, signkey, signmd, sctx_cb, dane,
                 call, nverify, trust, ssl_idx>>

Next ==
  \/ SSL_dane_library_init
  \/ SSL_CTX_dane_init
  \/ DaneInit({"none"})
  \/ DaneCleanup
  \/ AddTlsa(VerifyTlsa \cup StoreTlsaInvalid, {"none"})
  \/ Return
  \/ Handshake
  \/ VerifyCert({NoFault})
  \/ CtxFree

Spec == Init /\ [][Next]_vars

\* add_tlsa of connected.c: the record of usage u, selector s and digest
\* mdname for the certificate c, its data computed from the certificate.
ConnectedTlsa(u, s, mdname, c) ==
  LET buf == IF s = SSL_DANE_SELECTOR_CERT THEN i2d_X509(c) ELSE i2d_PUBKEY(c.pubkey) IN
  Tlsa(u, s, mdname,
       IF mdname # NullName THEN EVP_Digest(buf, EVP_get_digestbyname(mdname)) ELSE buf)

MatchCerts == {Cert(1), Cert(2), Cert(5)}
MatchInputs ==
  { ConnectedTlsa(SSL_DANE_USAGE_LIMIT_LEAF, s, m, c) :
      s \in {0, 1}, m \in {NullName, "sha256", "sha512"}, c \in MatchCerts }

\* match(dane->selectors[usage], cert, 0) on the records of the connection.
MatchCall ==
  /\ Idle
  /\ dane.alloc
  /\ \E c \in 1 .. 5 :
       call' = [NoCall EXCEPT !.op = "match", !.usage = SSL_DANE_USAGE_LIMIT_LEAF,
                              !.data = <<c>>,
                              !.ret = match(dane.selectors[SSL_DANE_USAGE_LIMIT_LEAF],
                                            Cert(c), 0, "none")]
  /\ UNCHANGED <<thr, lock, ninit, wrap_signed, err_lib_dane, dane_idx, signkey, signmd, sctx_cb, dane, ctx,
                 nverify, trust, ssl_idx>>

\* The matching engine on the stores that add_tlsa of connected.c builds.
NextMatch ==
  \/ SSL_dane_library_init
  \/ DaneInit({"none"})
  \/ AddTlsa(MatchInputs, {"none"})
  \/ MatchCall
  \/ Return

SpecMatch == Init /\ [][NextMatch]_vars

\* The record store alone, with every allocation that may fail.
NextStore ==
  \/ SSL_dane_library_init
  \/ DaneInit(InitFaults)
  \/ DaneCleanup
  \/ AddTlsa(StoreInputs, AddFaults)
  \/ Return

SpecStore == Init /\ [][NextStore]_vars

\* The record store alone, when no allocation fails.
NextStoreOK ==
  \/ SSL_dane_library_init
  \/ DaneInit({"none"})
  \/ DaneCleanup
  \/ AddTlsa(StoreInputs, {"none"})
  \/ Return

SpecStoreOK == Init /\ [][NextStoreOK]_vars

(***************************************************************************)
(* What the properties speak of.                                           *)
(***************************************************************************)
\* The step is a call of SSL_dane_add_tlsa; call' holds its arguments.
AddStep == call = NoCall /\ call'.op = "add_tlsa"

\* The connection has DANE state the library can find.
HasDane(d) == dane_idx >= 0 /\ d.alloc

\* The places of a usage's list: selector group, mtype group, data element.
Places(d, u) ==
  { <<i, j, k>> \in (1 .. MaxRecords + 1) \X (1 .. MaxRecords + 1) \X (1 .. MaxRecords + 1) :
      /\ i <= Len(d.selectors[u])
      /\ j <= Len(d.selectors[u][i].mtype)
      /\ k <= Len(d.selectors[u][i].mtype[j].data) }

\* The record at a place, as (selector, digest, data).
RecordAt(d, u, p) ==
  LET g == d.selectors[u][p[1]] IN
  <<g.selector, g.mtype[p[2]].md, g.mtype[p[2]].data[p[3]]>>

\* The store holds the record (usage, selector, mdname, data).
Stored(d, t) ==
  /\ t.usage \in Usages
  /\ \E p \in Places(d, t.usage) :
       RecordAt(d, t.usage, p) =
         <<t.selector, IF t.mdname = NullName THEN NoMD ELSE t.mdname, t.data>>

NoTwoSameRecords(d) ==
  \A u \in Usages : \A p, q \in Places(d, u) :
    RecordAt(d, u, p) = RecordAt(d, u, q) => p = q

\* The data is exactly the encoding of a certificate with a usable key
\* (selector Cert) or of a public key (selector SPKI).
DecodesCompletely(selector, data) ==
  IF selector = SSL_DANE_SELECTOR_CERT
  THEN \E i \in CertIds : Cert(i).pubkey # NoKey /\ data = i2d_X509(Cert(i))
  ELSE \E k \in 1 .. 9 : data = <<3, k>>

KnownDigests == {"sha256", "sha512"}
DigestLength(mdname) == IF mdname = "sha256" THEN 2 ELSE 3

\* One of the argument errors: usage > 3, selector > 1, an unknown digest
\* name, absent or empty data, or a digest with data of another length.
Malformed(t) ==
  \/ t.usage > 3
  \/ t.selector > 1
  \/ (t.mdname # NullName /\ t.mdname \notin KnownDigests)
  \/ t.data = NullData
  \/ t.data = << >>
  \/ (t.mdname \in KnownDigests /\ Len(t.data) # DigestLength(t.mdname))

\* A record the library accepts from this build.
ValidTlsa(t) ==
  /\ ~Malformed(t)
  /\ t.mdname = NullName => DecodesCompletely(t.selector, t.data)
  /\ ~(t.usage = 2 /\ wrap_signed /\ ~signkey)

(***************************************************************************)
(* Properties of the record store.                                         *)
(***************************************************************************)
\* C6: adding a record is idempotent.  The first call with a valid (usage,
\* selector, matching type, data) returns 1 and stores the record beside
\* those already there; a call with the four values of a stored record,
\* whatever was added in between, returns 1 and leaves the store and the
\* tables of anchor certificates and keys as they were; the store never
\* holds the same record twice.
C6_AddIsIdempotent ==
  [][ /\ (AddStep /\ HasDane(dane) /\ ValidTlsa(call') /\ ~Stored(dane, call'))
           => /\ call'.ret = 1
              /\ Stored(dane', call')
              /\ RecordCount(dane') = RecordCount(dane) + 1
              /\ \A t \in StoreInputs : Stored(dane, t) => Stored(dane', t)
      /\ (AddStep /\ Stored(dane, call')) => (call'.ret = 1 /\ dane' = dane)
      /\ NoTwoSameRecords(dane') ]_vars

\* A record is added again after another record of the same usage was added
\* behind it: it is found as a duplicate and is not at the head of the list.
C6_Witness ==
  /\ call.op = "add_tlsa" /\ call.ret = 1
  /\ Stored(dane, call)
  /\ UsageCount(dane, call.usage) = 2
  /\ RecordAt(dane, call.usage, <<1, 1, 1>>) #
       <<call.selector, IF call.mdname = NullName THEN NoMD ELSE call.mdname, call.data>>

\* C7: a call with usage > 3, selector > 1, an unknown digest name, absent
\* or empty data, or a digest and data of another length than the digest's,
\* fails and leaves the store and the anchor tables unchanged.
C7_MalformedIsRejected ==
  [][ (AddStep /\ Malformed(call')) => (call'.ret <= 0 /\ dane' = dane) ]_vars

\* A digest record whose data has the wrong length is refused by a
\* connection that already holds a record.
C7_Witness ==
  /\ call.op = "add_tlsa" /\ call.ret = 0
  /\ call.err = "DANE_R_BAD_DATA_LENGTH"
  /\ call.mdname \in KnownDigests /\ Len(call.data) # DigestLength(call.mdname)
  /\ RecordCount(dane) > 0

DecodeErrors == {"DANE_R_BAD_CERT", "DANE_R_BAD_CERT_PKEY", "DANE_R_BAD_PKEY"}

\* The call gets as far as decoding its data.
ReachesDecoding(t) ==
  /\ HasDane(dane)
  /\ t.usage <= 3 /\ t.selector <= 1 /\ t.data # NullData
  /\ ~(t.usage = 2 /\ wrap_signed /\ ~signkey)

\* C8: with no matching type, a record is stored only if its data decodes
\* completely, with no trailing bytes, as a certificate with a usable key
\* (selector Cert) or as a public key (selector SPKI); a call that gets as
\* far as decoding data that does not decode so fails with a decoding error
\* and changes nothing.
C8_FullDataMustDecode ==
  [][ (AddStep /\ call'.mdname = NullName)
        => /\ (Stored(dane', call') \/ dane' # dane)
                => DecodesCompletely(call'.selector, call'.data)
           /\ (ReachesDecoding(call') /\ ~DecodesCompletely(call'.selector, call'.data))
                => (call'.ret = 0 /\ call'.err \in DecodeErrors /\ dane' = dane) ]_vars

\* A certificate followed by one more byte is refused as a bad certificate.
C8_Witness ==
  /\ call.op = "add_tlsa" /\ call.mdname = NullName
  /\ call.selector = SSL_DANE_SELECTOR_CERT
  /\ Len(call.data) = 5 /\ SubSeq(call.data, 1, 4) = DerOf(1)
  /\ call.ret = 0 /\ call.err = "DANE_R_BAD_CERT"

\* The argument checks made before the signing key is looked at.
PassesArgumentChecks(t) ==
  /\ t.usage <= 3 /\ t.selector <= 1
  /\ t.mdname = NullName \/ t.mdname \in KnownDigests
  /\ t.data # NullData
  /\ t.mdname \in KnownDigests => Len(t.data) = DigestLength(t.mdname)

ArgumentErrors ==
  {"DANE_R_DANE_INIT", "DANE_R_BAD_USAGE", "DANE_R_BAD_SELECTOR", "DANE_R_BAD_DIGEST",
   "DANE_R_BAD_NULL_DATA", "DANE_R_BAD_DATA_LENGTH"}

\* The verification took the step called name.
TraceHas(tr, name) == \E i \in 1 .. Len(tr) : tr[i][1] = name

\* The chain walker or the synthesizer ran.
WalkerRan(tr) ==
  \E i \in 1 .. Len(tr) :
    tr[i][1] \in {"set_trust_anchor", "ta_signed", "wrap_key", "wrap_key(0)", "wrap_cert"}

\* The build needs a signing key and has none.
SigningKeyMissing == wrap_signed /\ ~signkey

\* C9 as stated: in a build that needs the signing key and has none, every
\* call with usage 2 fails with DANE_R_NOSIGN_KEY and stores nothing,
\* whatever its other arguments; no usage-2 record is ever held and the
\* walker and the synthesizer never run.
C9_Usage2AlwaysNoSignKey ==
  [][ SigningKeyMissing' =>
        /\ (AddStep /\ call'.usage = 2)
             => (call'.ret <= 0 /\ call'.err = "DANE_R_NOSIGN_KEY" /\ dane' = dane)
        /\ dane'.selectors[SSL_DANE_USAGE_TRUSTED_CA] = << >>
        /\ ctx'.done => ~WalkerRan(ctx'.tr) ]_vars

\* C9, amended: in such a build every call with usage 2 fails and stores
\* nothing; its error is DANE_R_NOSIGN_KEY when the connection has DANE state
\* and the selector, digest name, data pointer and digest length pass their
\* checks (whether or not the data decodes), and the error of the failing
\* check otherwise; no usage-2 record is ever held and the walker and the
\* synthesizer never run.
C9_Usage2NeedsSignKey ==
  [][ SigningKeyMissing' =>
        /\ (AddStep /\ call'.usage = 2)
             => /\ call'.ret <= 0 /\ dane' = dane
                /\ (HasDane(dane) /\ PassesArgumentChecks(call'))
                     => call'.err = "DANE_R_NOSIGN_KEY"
                /\ ~(HasDane(dane) /\ PassesArgumentChecks(call'))
                     => call'.err \in ArgumentErrors
        /\ dane'.selectors[SSL_DANE_USAGE_TRUSTED_CA] = << >>
        /\ ctx'.done => ~WalkerRan(ctx'.tr) ]_vars

\* A usage-2 record whose data does not decode is refused for the missing
\* key, not for its data.
C9_Witness ==
  /\ SigningKeyMissing /\ HasDane(dane)
  /\ call.op = "add_tlsa" /\ call.usage = 2 /\ call.mdname = NullName
  /\ ~DecodesCompletely(call.selector, call.data)
  /\ call.ret = 0 /\ call.err = "DANE_R_NOSIGN_KEY"

(***************************************************************************)
(* Properties of initialization.                                           *)
(***************************************************************************)
HostnameMismatchReported(tr) ==
  \E i \in 1 .. Len(tr) : tr[i][1] = "cb(0)" /\ tr[i][2] = "X509_V_ERR_HOSTNAME_MISMATCH"

\* C5: SSL_dane_init with an empty list of hostnames succeeds, and no
\* verification of a connection without expected hostnames reports a
\* hostname mismatch.
C5_EmptyHostnamesDisableCheck ==
  /\ (call.op = "init" /\ dane_idx >= 0 /\ ~call.hostnames.null
        /\ call.hostnames.list = << >>) => call.ret = 1
  /\ (ctx.done /\ HasDane(dane) /\ dane.hosts = << >>)
        => ~HostnameMismatchReported(ctx.tr)

(***************************************************************************)
(* Properties of the verification.                                         *)
(***************************************************************************)
\* A record matched in the verification: a usage-3 record the leaf, a
\* usage-2 record an anchor, a usage-0 or usage-1 record the built chain.
RecordMatched(tr) ==
  \E i \in 1 .. Len(tr) : tr[i][1] \in {"matched_ee", "matched_ta", "matched_pkix"}

\* C1: on a connection with DANE state, when the callback overrides no
\* error, a verification is accepted only if a TLSA record matched in it.
C1_AcceptedOnlyOnMatch ==
  (ctx.done /\ HasDane(dane) /\ ctx.cert # NoCert /\ ctx.cb_on_err = 0 /\ ctx.ret > 0)
    => RecordMatched(ctx.tr)

\* The bytes a selector extracts from a certificate.
Extract(selector, cert) ==
  IF selector = 0 THEN <<48, cert.id, 3, cert.pubkey>> ELSE <<3, cert.pubkey>>

\* A record of usage u is the digest, or the full bytes, of what its selector
\* extracts from cert.
RefMatch(d, u, cert) ==
  \E p \in Places(d, u) :
    LET r == RecordAt(d, u, p) IN
    r[3] = IF r[2] = NoMD THEN Extract(r[1], cert) ELSE EVP_Digest(Extract(r[1], cert), r[2])

\* The place of a step in the trace.
StepAt(tr, name) == CHOOSE i \in 1 .. Len(tr) : tr[i][1] = name

\* A verification of a connection with DANE state has run.
Verified == ctx.done /\ HasDane(dane) /\ ctx.cert # NoCert

\* C2: when the connection holds usage-3 records and the leaf matches one of
\* them, verify_cert does nothing but check the end entity and call the
\* callback with ok = 1 at error depth 0, whose answer it returns: no chain
\* walk, no path building, no usage-0/1 check, no hostname check.
C2_EndEntityShortCircuit ==
  (Verified /\ RefMatch(dane, SSL_DANE_USAGE_FIXED_LEAF, ctx.cert))
    => /\ ctx.tr = <<Ev("check_end_entity"), Ev("matched_ee"), Ev("cb(1)")>>
       /\ ctx.ret = ctx.cb_on_ok
       /\ ctx.error_depth = 0

\* The leaf matches a usage-3 record of a connection that also holds a
\* usage-2 record, and the peer sent a chain.
C2_Witness ==
  /\ Verified /\ RefMatch(dane, SSL_DANE_USAGE_FIXED_LEAF, ctx.cert)
  /\ dane.selectors[SSL_DANE_USAGE_TRUSTED_CA] # << >>
  /\ Len(ctx.built) > 1
  /\ ctx.ret = 1

\* The built chain satisfies a usage-0 record at some depth or a usage-1
\* record at depth 0.
UsageSatisfied ==
  \/ \E n \in 1 .. Len(ctx.chain) : RefMatch(dane, SSL_DANE_USAGE_LIMIT_ISSUER, ctx.chain[n])
  \/ RefMatch(dane, SSL_DANE_USAGE_LIMIT_LEAF, ctx.chain[1])

\* C3: when verify_chain finds no usage-2 root installed, it goes on without
\* calling the callback only if a certificate of the built chain matches a
\* usage-0 record or the leaf matches a usage-1 record (a usage-1 record
\* that matches a certificate above the leaf does not count); otherwise it
\* calls the callback with ok = 0 and X509_V_ERR_CERT_UNTRUSTED, and the
\* verification is rejected when the callback answers 0.
C3_UsageConstraint ==
  (Verified /\ TraceHas(ctx.tr, "usage_check"))
    => LET i == StepAt(ctx.tr, "usage_check")
           called == i < Len(ctx.tr) /\ ctx.tr[i + 1][1] = "cb(0)" IN
       /\ ~called => UsageSatisfied
       /\ ~UsageSatisfied
            => /\ called /\ ctx.tr[i + 1][2] = "X509_V_ERR_CERT_UNTRUSTED"
               /\ ctx.cb_on_err = 0 => (ctx.ret = 0 /\ Len(ctx.tr) = i + 1)

\* The only record that matches is a usage-1 record of the certificate above
\* the leaf: the constraint fails and the callback rejects.
C3_Witness ==
  /\ Verified /\ TraceHas(ctx.tr, "usage_check")
  /\ Len(ctx.chain) > 1
  /\ RefMatch(dane, SSL_DANE_USAGE_LIMIT_LEAF, ctx.chain[2])
  /\ ~UsageSatisfied
  /\ ctx.cb_on_err = 0 /\ ctx.ret = 0

\* The reference identifiers of a certificate: its DNS subject alternative
\* names, or its common name when it has none.
ReferenceIds(cert) ==
  LET dns == { cert.san[k].data : k \in { j \in 1 .. Len(cert.san) : cert.san[j].type = "DNS" } } IN
  IF dns # {} THEN dns ELSE {cert.cn} \ {NoName}

NameMatches(cert, hosts) ==
  \E id \in ReferenceIds(cert) : \E k \in 1 .. Len(hosts) : id = hosts[k]

\* C4: when the connection has expected hostnames and no reference
\* identifier of the leaf matches one, the hostname step of verify_chain
\* calls the callback with ok = 0, error depth 0 and the hostname-mismatch
\* error, which is not the error of a failed usage-0/1 constraint; the
\* verification is rejected if the callback answers 0 and goes on to the
\* original verify function otherwise.
C4_HostnameMismatch ==
  (Verified /\ TraceHas(ctx.tr, "name_check") /\ dane.hosts # << >>
     /\ ~NameMatches(ctx.cert, dane.hosts))
    => LET i == StepAt(ctx.tr, "name_check") IN
       /\ i < Len(ctx.tr)
       /\ ctx.tr[i + 1] = <<"cb(0)", "X509_V_ERR_HOSTNAME_MISMATCH", 0>>
       /\ \A j \in 1 .. Len(ctx.tr) :
            (j > 1 /\ ctx.tr[j - 1][1] = "usage_check" /\ ctx.tr[j][1] = "cb(0)")
              => ctx.tr[j][2] # ctx.tr[i + 1][2]
       /\ ctx.cb_on_err = 0 => (ctx.ret = 0 /\ Len(ctx.tr) = i + 1)
       /\ ctx.cb_on_err # 0 => (i + 1 < Len(ctx.tr) /\ ctx.tr[i + 2] = Ev("verify"))

\* Both the usage constraint and the hostname check fail, and the callback
\* lets both pass.
C4_Witness ==
  /\ Verified /\ dane.hosts # << >> /\ ~NameMatches(ctx.cert, dane.hosts)
  /\ \E i \in 1 .. Len(ctx.tr) : ctx.tr[i] = <<"cb(0)", "X509_V_ERR_HOSTNAME_MISMATCH", 0>>
  /\ \E i \in 1 .. Len(ctx.tr) : ctx.tr[i][2] = "X509_V_ERR_CERT_UNTRUSTED"
  /\ ctx.ret = 1

(***************************************************************************)
(* Properties of the matching engine.                                      *)
(***************************************************************************)
\* C10: match returns a match for a certificate when a record of the list is
\* the digest, or the full bytes, of what the record's selector extracts
\* from it, and NoMatch when every record was built from other bytes.
C10_MatchIsExact ==
  call.op = "match"
    => LET c == Cert(call.data[1]) IN
       /\ RefMatch(dane, call.usage, c) => call.ret > 0
       /\ ~RefMatch(dane, call.usage, c) => call.ret = 0

\* The certificate matches the record of the second selector group and not
\* the record of the first.
C10_Witness ==
  /\ call.op = "match" /\ call.ret > 0
  /\ Len(dane.selectors[call.usage]) = 2
  /\ \A p \in Places(dane, call.usage) :
       LET r == RecordAt(dane, call.usage, p)
           x == Extract(r[1], Cert(call.data[1])) IN
       (r[3] = IF r[2] = NoMD THEN x ELSE EVP_Digest(x, r[2])) <=> p[1] = 2

(***************************************************************************)
(* The hostname matcher on its own: match_name on every short candidate    *)
(* and expected name, and on the names of the documentation's examples     *)
(* ("e.c" stands for example.com).                                         *)
(***************************************************************************)
\* The longest name of the exhaustive part.
MaxNameLen == 3
NameAlphabet == {"a", "A", "b", ".", "*"}
ShortNames == UNION { [1 .. n -> NameAlphabet] : n \in 0 .. MaxNameLen }
ExampleCandidates ==
  { <<"*", ".", "e", ".", "c">>, <<"a", ".", "e", ".", "c">>,
    <<"a", ".", "b", ".", "e", ".", "c">>, <<"e", ".", "c">>, <<"A", ".", "E", ".", "C">> }
ExampleHosts ==
  { <<"a", ".", "e", ".", "c">>, <<"e", ".", "c">>, <<"a", ".", "b", ".", "e", ".", "c">>,
    <<".", "e", ".", "c">>, <<"A", ".", "E", ".", "C">> }

\* match_name(certid, dane) for a connection whose only expected name is
\* host, with multi-label wildcards off.
MatchNameCall ==
  /\ Idle
  /\ \E certid \in ShortNames \cup ExampleCandidates, host \in ShortNames \cup ExampleHosts :
       call' = [NoCall EXCEPT !.op = "match_name", !.data = certid,
                              !.hostnames = [null |-> FALSE, list |-> <<host>>],
                              !.ret = match_name(certid, [hosts |-> <<host>>, multi |-> 0])]
  /\ UNCHANGED <<thr, lock, ninit, wrap_signed, err_lib_dane, dane_idx, signkey, signmd, sctx_cb, dane, ctx,
                 nverify, trust, ssl_idx>>

NextName ==
  \/ MatchNameCall
  \/ Return

SpecName == Init /\ [][NextName]_vars

\* The two letters are the same letter, in either case.
SameLetter(x, y) ==
  x = y \/ {x, y} \in {{"a", "A"}, {"b", "B"}, {"c", "C"}, {"e", "E"}, {"w", "W"}}
SameName(a, b) == Len(a) = Len(b) /\ \A i \in 1 .. Len(a) : SameLetter(a[i], b[i])

\* c is x.rem for a non-empty x.
StrictSubdomain(c, rem) ==
  \E k \in 1 .. Len(c) :
    /\ Len(c) = k + 1 + Len(rem)
    /\ c[k + 1] = "."
    /\ SameName(SubSeq(c, k + 2, Len(c)), rem)

\* c is *.R with R of at least minR characters, and e is one label, a dot
\* and R.
WildcardOf(c, e, minR) ==
  /\ Len(c) >= 2 + minR /\ c[1] = "*" /\ c[2] = "."
  /\ \E k \in 1 .. Len(e) :
       /\ \A j \in 1 .. k : e[j] # "."
       /\ Len(e) = k + Len(c) - 1
       /\ e[k + 1] = "."
       /\ SameName(SubSeq(e, k + 2, Len(e)), SubSeq(c, 3, Len(c)))

\* The reference matcher of the documentation.
RefMatchName(c, e, minR) ==
  IF Len(e) >= 2 /\ e[1] = "."
  THEN StrictSubdomain(c, SubSeq(e, 2, Len(e)))
  ELSE SameName(c, e) \/ WildcardOf(c, e, minR)

\* C11 as stated: match_name with multi-label mode off agrees with the
\* reference matcher on every candidate and expected name, where a wildcard
\* candidate is *.R for any R, the empty R included.
C11_MatchNameIsReference ==
  call.op = "match_name"
    => (call.ret = 1 <=> RefMatchName(call.data, call.hostnames.list[1], 0))

\* C11: match_name with multi-label mode off agrees with the reference
\* matcher on every candidate and expected name, where a wildcard candidate
\* is *.R for a non-empty R: an expected name .R matches the strict
\* sub-domains of R; any other expected name matches itself in any case,
\* and *.R when it is one label followed by .R.
C11_MatchNameIsReferenceNonEmpty ==
  call.op = "match_name"
    => /\ call.ret \in {0, 1}
       /\ call.ret = 1 <=> RefMatchName(call.data, call.hostnames.list[1], 1)

\* *.e.c matched a.e.c.
C11_Witness ==
  /\ call.op = "match_name" /\ call.ret = 1
  /\ call.data = <<"*", ".", "e", ".", "c">>
  /\ call.hostnames.list[1] = <<"a", ".", "e", ".", "c">>

(***************************************************************************)
(* name_check on its own: certificates with every short list of subject    *)
(* alternative names, against connections with one or two expected names.  *)
(***************************************************************************)
\* The longest list of subject alternative names.
MaxSan == 2
SanEntries ==
  { [type |-> "DNS", ia5 |-> TRUE, data |-> H_wec],
    [type |-> "DNS", ia5 |-> TRUE, data |-> H_ec],
    [type |-> "DNS", ia5 |-> TRUE, data |-> <<"*", ".", "e", ".", "c">>],
    [type |-> "DNS", ia5 |-> TRUE, data |-> H_wec \o <<NUL>>],
    [type |-> "DNS", ia5 |-> TRUE, data |-> <<"w", NUL, ".", "e", ".", "c">>],
    [type |-> "DNS", ia5 |-> FALSE, data |-> H_wec],
    [type |-> "EMAIL", ia5 |-> TRUE, data |-> H_wec] }
SanLists == UNION { [1 .. n -> SanEntries] : n \in 0 .. MaxSan }
NameCheckCerts ==
  { [Cert(1) EXCEPT !.san = s, !.cn = c] : s \in SanLists, c \in {NoName, H_wec, H_ec} }
NameCheckHosts ==
  { [null |-> FALSE, list |-> <<H_wec>>],
    [null |-> FALSE, list |-> <<H_ec>>],
    [null |-> FALSE, list |-> <<H_ec, <<"c">>>>] }

\* SSL_dane_init with the expected names of these connections.
DaneInitNames ==
  /\ Setup
  /\ \E h \in NameCheckHosts :
       LET Done(r) ==
             /\ dane' = r.dane
             /\ call' = [NoCall EXCEPT !.op = "init", !.hostnames = h,
                                       !.ret = r.ret, !.err = r.err] IN
       Done(SSL_dane_init(dane, h, << >>, "none"))
  /\ UNCHANGED <<thr, lock, ninit, wrap_signed, err_lib_dane, dane_idx, signkey, signmd, sctx_cb, ctx,
                 nverify, trust, ssl_idx>>

\* name_check(dane, cert), as verify_chain calls it.
NameCheckCall ==
  /\ Idle
  /\ dane.alloc
  /\ \E cert \in NameCheckCerts :
       LET Done(r) ==
             /\ dane' = [dane EXCEPT !.mhost = r.mhost]
             /\ call' = [NoCall EXCEPT !.op = "name_check", !.data = <<cert>>,
                                       !.ret = r.matched] IN
       Done(name_check(dane, cert, "none"))
  /\ UNCHANGED <<thr, lock, ninit, wrap_signed, err_lib_dane, dane_idx, signkey, signmd, sctx_cb, ctx,
                 nverify, trust, ssl_idx>>

NextNameCheck ==
  \/ SSL_dane_library_init
  \/ DaneInitNames
  \/ NameCheckCall
  \/ Return

SpecNameCheck == Init /\ [][NextNameCheck]_vars

\* The characters of the name up to its trailing NULs.
Trimmed(name) ==
  SubSeq(name, 1, IF \E i \in 1 .. Len(name) : name[i] # NUL
                  THEN CHOOSE i \in 1 .. Len(name) :
                         name[i] # NUL /\ \A j \in i + 1 .. Len(name) : name[j] = NUL
                  ELSE 0)

\* A valid DNS alternative name: an IA5 string of letters, digits, '.', '-'
\* and '*', not empty.
ValidDnsEntry(e) ==
  /\ e.type = "DNS" /\ e.ia5
  /\ Trimmed(e.data) # << >>
  /\ \A i \in 1 .. Len(Trimmed(e.data)) :
       Trimmed(e.data)[i] \in {"a", "b", "c", "e", "w", "A", "B", "C", "E", "W",
                               "0", "1", ".", "-", "*"}

\* The identifier is one of the expected names, by the reference matcher.
MatchesExpected(id, hosts) ==
  \E k \in 1 .. Len(hosts) : RefMatchName(id, hosts[k], 1)

\* The positions of the valid DNS alternative names that match.
MatchingSans(cert, hosts) ==
  { i \in 1 .. Len(cert.san) :
      ValidDnsEntry(cert.san[i]) /\ MatchesExpected(Trimmed(cert.san[i].data), hosts) }

HasDnsSan(cert) == \E i \in 1 .. Len(cert.san) : cert.san[i].type = "DNS"

\* C12: when the certificate has a DNS subject alternative name, valid or
\* not, matching or not, name_check never compares the common name: it
\* answers a match exactly when a valid DNS alternative name matches an
\* expected name, and records the first one that does as the matched host.
C12_CommonNameOnlyWithoutDnsSan ==
  (call.op = "name_check" /\ HasDnsSan(call.data[1]))
    => LET cert == call.data[1]
           ms == MatchingSans(cert, dane.hosts) IN
       /\ call.ret \in {0, 1}
       /\ call.ret = 1 <=> ms # {}
       /\ ms # {}
            => dane.mhost = Trimmed(cert.san[CHOOSE i \in ms : \A j \in ms : i <= j].data)

\* The only DNS alternative name is invalid and the common name is an
\* expected name: no match.
C12_Witness ==
  /\ call.op = "name_check" /\ HasDnsSan(call.data[1])
  /\ \A i \in 1 .. Len(call.data[1].san) : ~ValidDnsEntry(call.data[1].san[i])
  /\ MatchesExpected(call.data[1].cn, dane.hosts)
  /\ call.ret = 0

(***************************************************************************)
(* SSL_dane_library_init called by several threads: every read, write and  *)
(* lock operation of SSL_dane_library_init, safe_init and dane_init is a   *)
(* step of its thread.  CRYPTO_LOCK_SSL_CTX is a readers-writer lock.      *)
(***************************************************************************)
\* An initialization that does not look again once it holds the write lock.
SecondCheckSkipped(value) == TRUE

\* "if (*value < 0)", the first time under the read lock and the second
\* time under the write lock.
FirstCheck(value) == value < 0
SecondCheck(value) == value < 0

Goto(t, pc) == thr' = [thr EXCEPT ![t].pc = pc]
Globals == <<wrap_signed, err_lib_dane, dane_idx, signkey, signmd>>
Others == <<sctx_cb, dane, ctx, call, nverify, trust, ssl_idx>>

\* SSL_dane_library_init is entered.
LibEnter(t) ==
  /\ thr[t].pc = "idle" /\ thr[t].ncalls < MaxCalls
  /\ Goto(t, "fast")
  /\ UNCHANGED <<Globals, Others, lock, ninit>>

\* "if (err_lib_dane < 0)", read without any lock.
FastCheck(t) ==
  /\ thr[t].pc = "fast"
  /\ Goto(t, IF err_lib_dane < 0 THEN "r_lock" ELSE "result")
  /\ UNCHANGED <<Globals, Others, lock, ninit>>

\* CRYPTO_r_lock(CRYPTO_LOCK_SSL_CTX)
RLock(t) ==
  /\ thr[t].pc = "r_lock"
  /\ lock.writer = 0
  /\ lock' = [lock EXCEPT !.readers = @ \cup {t}]
  /\ Goto(t, "check1")
  /\ UNCHANGED <<Globals, Others, ninit>>

\* "if (*value < 0)" under the read lock.
Check1(t) ==
  /\ thr[t].pc = "check1"
  /\ Goto(t, IF FirstCheck(err_lib_dane) THEN "upgrade" ELSE "r_unlock")
  /\ UNCHANGED <<Globals, Others, lock, ninit>>

\* CRYPTO_r_unlock before the write lock is taken.
Upgrade(t) ==
  /\ thr[t].pc = "upgrade"
  /\ lock' = [lock EXCEPT !.readers = @ \ {t}]
  /\ Goto(t, "w_lock")
  /\ UNCHANGED <<Globals, Others, ninit>>

\* CRYPTO_w_lock(CRYPTO_LOCK_SSL_CTX)
WLock(t) ==
  /\ thr[t].pc = "w_lock"
  /\ lock.writer = 0 /\ lock.readers = {}
  /\ lock' = [lock EXCEPT !.writer = t]
  /\ Goto(t, "check2")
  /\ UNCHANGED <<Globals, Others, ninit>>

\* "if (*value < 0)" under the write lock.
Check2(t) ==
  /\ thr[t].pc = "check2"
  /\ Goto(t, IF SecondCheck(err_lib_dane) THEN "init" ELSE "w_unlock")
  /\ UNCHANGED <<Globals, Others, lock, ninit>>

\* "*value = init()": ERR_get_next_error_library.
InitValue(t) ==
  /\ thr[t].pc = "init"
  /\ err_lib_dane' = 1
  /\ ninit' = [ninit EXCEPT !.lib = @ + 1]
  /\ Goto(t, "postinit_key")
  /\ UNCHANGED <<wrap_signed, dane_idx, signkey, signmd, Others, lock>>

\* dane_init: the signing digest and key.
PostInitKey(t) ==
  /\ thr[t].pc = "postinit_key"
  /\ \E support \in BOOLEAN :
       /\ signmd' = (signmd \/ (wrap_signed /\ support))
       /\ signkey' = (signkey \/ (wrap_signed /\ support))
  /\ ninit' = [ninit EXCEPT !.key = @ + 1]
  /\ Goto(t, "postinit_strings")
  /\ UNCHANGED <<wrap_signed, err_lib_dane, dane_idx, Others, lock>>

\* dane_init: load_dane_strings.
PostInitStrings(t) ==
  /\ thr[t].pc = "postinit_strings"
  /\ ninit' = [ninit EXCEPT !.strings = @ + 1]
  /\ Goto(t, "postinit_idx")
  /\ UNCHANGED <<Globals, Others, lock>>

\* dane_init: "dane_idx = SSL_get_ex_new_index(0, 0, 0, 0, 0)".
PostInitIdx(t) ==
  /\ thr[t].pc = "postinit_idx"
  /\ dane_idx' \in {-1, 0}
  /\ ninit' = [ninit EXCEPT !.idx = @ + 1]
  /\ Goto(t, "w_unlock")
  /\ UNCHANGED <<wrap_signed, err_lib_dane, signkey, signmd, Others, lock>>

\* CRYPTO_w_unlock / CRYPTO_r_unlock at the end of safe_init.
Unlock(t) ==
  /\ thr[t].pc \in {"w_unlock", "r_unlock"}
  /\ lock' = IF thr[t].pc = "w_unlock" THEN [lock EXCEPT !.writer = 0]
             ELSE [lock EXCEPT !.readers = @ \ {t}]
  /\ Goto(t, "result")
  /\ UNCHANGED <<Globals, Others, ninit>>

\* The result of SSL_dane_library_init.
LibReturn(t) ==
  /\ thr[t].pc = "result"
  /\ thr' = [thr EXCEPT ![t] = [pc |-> "idle", ncalls |-> @.ncalls + 1,
                                ret |-> IF dane_idx >= 0
                                        THEN IF ~wrap_signed \/ (signmd /\ signkey)
                                             THEN 1 ELSE 0
                                        ELSE -1]]
  /\ UNCHANGED <<Globals, Others, lock, ninit>>

NextThreads ==
  \E t \in Threads :
    \/ LibEnter(t)
    \/ FastCheck(t)
    \/ RLock(t)
    \/ Check1(t)
    \/ Upgrade(t)
    \/ WLock(t)
    \/ Check2(t)
    \/ InitValue(t)
    \/ PostInitKey(t)
    \/ PostInitStrings(t)
    \/ PostInitIdx(t)
    \/ Unlock(t)
    \/ LibReturn(t)

SpecThreads == Init /\ [][NextThreads]_vars

\* C13: however the threads that call SSL_dane_library_init interleave, no
\* part of the process-wide initialization (the error-library id, the
\* signing key, the error strings, the extension-slot index) runs twice, and
\* once a call has been made and no thread is inside the function, each
\* part has run exactly once.
C13_InitExactlyOnce ==
  /\ ninit.lib <= 1 /\ ninit.key <= 1 /\ ninit.strings <= 1 /\ ninit.idx <= 1
  /\ ((\A t \in Threads : thr[t].pc = "idle") /\ (\E t \in Threads : thr[t].ncalls > 0))
       => ninit = [lib |-> 1, key |-> 1, strings |-> 1, idx |-> 1]

\* At least two threads have called SSL_dane_library_init and returned, and
\* each part of the initialization has run once.
C13_Witness ==
  /\ \A t \in Threads : thr[t].pc = "idle"
  /\ Cardinality({ t \in Threads : thr[t].ncalls > 0 }) >= 2
  /\ ninit = [lib |-> 1, key |-> 1, strings |-> 1, idx |-> 1]

(***************************************************************************)
(* Properties of initialization and cleanup.                               *)
(***************************************************************************)
\* No call of SSL_dane_library_init has succeeded yet: the extension-slot
\* index is not registered.
LibraryNotReady == dane_idx < 0

\* C14: SSL_CTX_dane_init and SSL_dane_init called before a successful
\* SSL_dane_library_init return an error, and install no verification
\* callback and attach no state; SSL_dane_add_tlsa on a connection without
\* DANE state (never initialized, or cleaned up) returns an error and stores
\* nothing.
C14_UninitializedUseIsRejected ==
  [][/\ (call = NoCall /\ call'.op = "ctx_init" /\ LibraryNotReady)
          => /\ call'.ret < 0 /\ call'.err # ""
             /\ ~sctx_cb' /\ dane' = dane
     /\ (call = NoCall /\ call'.op = "init" /\ LibraryNotReady)
          => /\ call'.ret < 0 /\ call'.err # ""
             /\ ~dane'.alloc /\ dane' = dane /\ sctx_cb' = sctx_cb
     /\ (AddStep /\ ~dane.alloc)
          => /\ call'.ret < 0 /\ call'.err # ""
             /\ dane' = dane /\ dane' = NoDane]_vars

\* A record was offered to a connection whose state had been released while
\* the library was initialized, and was refused.
C14_Witness ==
  /\ call.op = "add_tlsa" /\ call.ret = -1 /\ call.err = "DANE_R_DANE_INIT"
  /\ dane_idx >= 0 /\ ~dane.alloc
  /\ call.usage = 3 /\ call.mdname = "sha256"

\* C15 as stated: SSL_dane_cleanup is safe in every state; on a connection
\* without DANE state it changes nothing, and on a connection with DANE
\* state it releases what the state owns and leaves the connection without
\* DANE state, so that a second cleanup changes nothing.
C15_CleanupIsSafe ==
  [][(call = NoCall /\ call'.op = "cleanup")
       => /\ call'.err = ""
          /\ ~dane.alloc => dane' = dane
          /\ dane.alloc => dane' = NoDane]_vars

(***************************************************************************)
(* Properties of the chain walker and of the order of the phases.          *)
(***************************************************************************)
\* The connection holds usage-0 records and no other.
OnlyUsage0(d) ==
  /\ UsageCount(d, SSL_DANE_USAGE_LIMIT_ISSUER) > 0
  /\ \A u \in Usages \ {SSL_DANE_USAGE_LIMIT_ISSUER} : UsageCount(d, u) = 0

\* What the peer sent with the certificate being verified.
SentWith(cert) == { p.untrusted : p \in { q \in Presented : q.cert = cert } }

\* C16: in a verification on a connection whose only records are usage-0
\* records, the chain walker and the synthesizer do not run, the roots and
\* chain accumulators stay empty, the builder's trusted stack and untrusted
\* chain stay the caller's, and when a usage-0 record matches a CA
\* certificate of the built chain the usage constraint passes with no
\* untrusted-certificate error reported to the callback.
C16_Usage0NoSynthesis ==
  (Verified /\ OnlyUsage0(dane))
    => /\ ~WalkerRan(ctx.tr)
       /\ ~dane.roots_alloc /\ dane.roots = << >>
       /\ ~dane.chain_alloc /\ dane.chain = << >>
       /\ ~ctx.trusted_set /\ ctx.trusted = << >>
       /\ ctx.untrusted \in SentWith(ctx.cert)
       /\ ((\E n \in 2 .. Len(ctx.chain) :
              RefMatch(dane, SSL_DANE_USAGE_LIMIT_ISSUER, ctx.chain[n]))
           /\ TraceHas(ctx.tr, "usage_check"))
            => /\ ctx.tr[StepAt(ctx.tr, "usage_check") + 1] = Ev("matched_pkix")
               /\ \A i \in 1 .. Len(ctx.tr) : ctx.tr[i][2] # "X509_V_ERR_CERT_UNTRUSTED"

\* A usage-0 record matched the root of the chain the builder assembled from
\* what the peer sent, and the verification was accepted.
C16_Witness ==
  /\ Verified /\ OnlyUsage0(dane)
  /\ Len(ctx.chain) = 3 /\ ctx.untrusted # << >>
  /\ RefMatch(dane, SSL_DANE_USAGE_LIMIT_ISSUER, ctx.chain[3])
  /\ TraceHas(ctx.tr, "matched_pkix")
  /\ ctx.ret = 1

\* The verification went past the usage-3 check into the trust-anchor setup.
SetupReached == Verified /\ ~TraceHas(ctx.tr, "matched_ee")

\* C17 as stated: in the trust-anchor setup of verify_cert the chain walker
\* runs when the connection holds usage-0 records or usage-2 records, and
\* does not run when it holds neither.
C17_WalkerRunsForUsage0Or2 ==
  SetupReached
    => (TraceHas(ctx.tr, "set_trust_anchor")
          <=> (UsageCount(dane, SSL_DANE_USAGE_LIMIT_ISSUER) > 0
               \/ UsageCount(dane, SSL_DANE_USAGE_TRUSTED_CA) > 0))

\* C17: in the trust-anchor setup of verify_cert the chain walker runs when
\* the connection holds usage-2 records and does not run when it holds none,
\* whether or not it holds usage-0 records.
C17_WalkerRunsForUsage2 ==
  SetupReached
    => /\ TraceHas(ctx.tr, "set_trust_anchor")
            <=> UsageCount(dane, SSL_DANE_USAGE_TRUSTED_CA) > 0
       /\ ~TraceHas(ctx.tr, "set_trust_anchor") => ~WalkerRan(ctx.tr)

\* The walker ran on a connection that holds a usage-2 record and a usage-0
\* record.
C17_Witness ==
  /\ SetupReached
  /\ UsageCount(dane, SSL_DANE_USAGE_TRUSTED_CA) > 0
  /\ UsageCount(dane, SSL_DANE_USAGE_LIMIT_ISSUER) > 0
  /\ ctx.tr[1] = Ev("set_trust_anchor")

(***************************************************************************)
(* The verification with the failures that may happen inside verify_chain: *)
(* a digest or an allocation that fails in match, the copy of the matched  *)
(* name that fails in name_check.                                          *)
(***************************************************************************)
ChainFaults ==
  { NoFault, Fault("verify_chain", "digest"), Fault("verify_chain", "malloc"),
    Fault("name_check", "strdup") }

NextChainFaults ==
  \/ SSL_dane_library_init
  \/ SSL_CTX_dane_init
  \/ DaneInit({"none"})
  \/ AddTlsa(VerifyTlsa, {"none"})
  \/ Return
  \/ Handshake
  \/ VerifyCert(ChainFaults)
  \/ CtxFree

SpecChainFaults == Init /\ [][NextChainFaults]_vars

\* The places of a step in the trace.
Positions(tr, name) == { i \in 1 .. Len(tr) : tr[i][1] = name }

\* The callback was told of a failed usage-0/1 constraint or of a hostname
\* mismatch.
PolicyFailureReported(tr) ==
  \E i \in 1 .. Len(tr) :
    /\ tr[i][1] = "cb(0)"
    /\ tr[i][2] \in {"X509_V_ERR_CERT_UNTRUSTED", "X509_V_ERR_HOSTNAME_MISMATCH"}

\* The usage check or the hostname check ended in an internal error: it is
\* the last thing the verification did.
CheckFailedInside(tr) == tr # << >> /\ tr[Len(tr)][1] \in {"usage_check", "name_check"}

AnchorsInstalled ==
  /\ ctx.trusted_set
  /\ ctx.trusted = dane.roots
  /\ ctx.untrusted = dane.chain

\* C19: in a verification where set_trust_anchor returned a positive match
\* (a self-signed leaf matched at depth 0, an issuer matched during the
\* walk, or the signature fallback), dane->roots and dane->chain are the
\* trusted stack and the untrusted chain of the X509_STORE_CTX the path
\* builder was invoked with.
C19_MatchInstallsAnchors ==
  (Verified /\ TraceHas(ctx.tr, "matched_ta") /\ TraceHas(ctx.tr, "X509_verify_cert"))
    => AnchorsInstalled

(***************************************************************************)
(* Verifications in which one step of the chain walk or of the synthesis   *)
(* fails, on connections that hold usage-2 records.                        *)
(***************************************************************************)
WalkFaults ==
  { NoFault,
    Fault("set_trust_anchor", "malloc"), Fault("set_trust_anchor", "digest"),
    Fault("set_trust_anchor", "sk_X509_dup"), Fault("set_trust_anchor", "X509_get_pubkey"),
    Fault("set_trust_anchor_0", "new"), Fault("set_trust_anchor_ca", "push"),
    Fault("wrap_key", "X509_new"), Fault("wrap_key", "X509_sign"),
    Fault("wrap_cert", "d2i_X509"), Fault("wrap_cert", "X509_sign"),
    Fault("wrap_key_roots", "push"), Fault("wrap_cert_chain", "push"),
    Fault("ta_signed", "X509_get_pubkey") }

WalkTlsa == { t \in VerifyTlsa : t.usage = SSL_DANE_USAGE_TRUSTED_CA }

NextWalkFaults ==
  \/ SSL_dane_library_init \/ SSL_CTX_dane_init \/ DaneInit({"none"})
  \/ AddTlsa(WalkTlsa, {"none"}) \/ Return \/ Handshake
  \/ VerifyCert(WalkFaults) \/ CtxFree

SpecWalkFaults == Init /\ [][NextWalkFaults]_vars

\* The verification that ends in this step did not go as it goes when no
\* step fails: a step of it failed.
StepFailed ==
  LET Differs(r) ==
        \/ r.ret # ctx'.ret
        \/ r.w.tr # ctx'.tr
        \/ r.w.dane # dane'
        \/ r.w.trust # trust' IN
  Differs(verify_cert([dane |-> dane, ctx |-> ctx, trust |-> trust, tr |-> << >>], NoFault))

\* C20: when a step of the chain walk or of the synthesis fails, verify_cert
\* returns -1, neither the path builder nor the callback has been called,
\* and the trusted stack and the untrusted chain of the X509_STORE_CTX are
\* what they were when the verification started.
C20_WalkFailureIsFatal ==
  [][(/\ ctx.active /\ ~ctx.done /\ ctx'.done
      /\ HasDane(dane) /\ ctx.cert # NoCert
      /\ StepFailed)
       => /\ ctx'.ret = -1
          /\ TraceHas(ctx'.tr, "set_trust_anchor")
          /\ ~TraceHas(ctx'.tr, "X509_verify_cert")
          /\ ~TraceHas(ctx'.tr, "cb(0)") /\ ~TraceHas(ctx'.tr, "cb(1)")
          /\ ctx'.trusted_set = ctx.trusted_set
          /\ ctx'.trusted = ctx.trusted
          /\ ctx'.untrusted = ctx.untrusted]_vars

\* C21: a failure inside match (the digest cannot be computed, the buffer
\* for the DER bytes cannot be allocated) is an error and not "no record
\* matched": the verification in which it strikes, in the usage-0/1 check
\* of verify_chain, is rejected there and then: the check is the last thing
\* the verification does, the callback is not asked about an untrusted
\* certificate in its place and the original verify function is not called.
C21_MatchFailureIsError ==
  [][(/\ ctx.active /\ ~ctx.done /\ ctx'.done
      /\ HasDane(dane) /\ ctx.cert # NoCert
      /\ StepFailed)
       => /\ ctx'.ret = 0
          /\ CheckFailedInside(ctx'.tr)
          /\ ~TraceHas(ctx'.tr, "verify")]_vars

(***************************************************************************)
(* The chain walker and the synthesizer on their own: connections that     *)
(* hold usage-2 records (anchor certificates, anchor keys, digests) and    *)
(* peers whose chains are short, long, duplicated or cyclic.               *)
(***************************************************************************)
AnchorTlsa ==
  { Tlsa(2, 0, NullName, DerOf(5)),
    Tlsa(2, 0, NullName, DerOf(2)),
    Tlsa(2, 0, NullName, DerOf(3)),
    Tlsa(2, 0, NullName, DerOf(8)),
    Tlsa(2, 1, NullName, SpkiOf(2)),
    Tlsa(2, 1, NullName, SpkiOf(3)),
    Tlsa(2, 1, "sha256", EVP_Digest(SpkiOf(2), "sha256")) }

WalkPresented ==
  { [cert |-> Cert(p[1]), untrusted |-> SeqOf(p[2]), built |-> SeqOf(<<p[1]>>)] :
      p \in { <<1, << >> >>, <<1, <<2>> >>, <<1, <<2, 3>> >>, <<1, <<2, 2, 3>> >>,
              <<7, <<8, 7>> >>, <<7, <<7, 8>> >>, <<7, <<8>> >>, <<4, << >> >> } }

\* The TLS stack received the peer's chain and set up an X509_STORE_CTX.
HandshakeOf(presented, callbacks) ==
  /\ Idle
  /\ sctx_cb
  /\ nverify < MaxVerify
  /\ \E p \in presented, c \in callbacks :
       ctx' = [NoCtx EXCEPT !.active = TRUE, !.cert = p.cert,
                            !.untrusted = p.untrusted, !.built = p.built,
                            !.cb_on_ok = c.on_ok, !.cb_on_err = c.on_err]
  /\ nverify' = nverify + 1
  /\ UNCHANGED <<thr, lock, ninit, wrap_signed, err_lib_dane, dane_idx, signkey, signmd, sctx_cb, dane,
                 call, trust, ssl_idx>>

NextWalk ==
  \/ SSL_dane_library_init \/ SSL_CTX_dane_init \/ DaneInit({"none"})
  \/ AddTlsa(AnchorTlsa, {"none"}) \/ Return
  \/ HandshakeOf(WalkPresented, {[on_ok |-> 1, on_err |-> 1]})
  \/ VerifyCert({NoFault}) \/ CtxFree

SpecWalk == Init /\ [][NextWalk]_vars

\* A verification of a connection with DANE state ends in this step.
VerifyStep == ctx.active /\ ~ctx.done /\ ctx'.done /\ HasDane(dane) /\ ctx.cert # NoCert

\* Where the chain walk ends: at an issuer that a usage-2 record matches
\* ("matched"), at an unmatched self-issued issuer ("selfsigned"), or with
\* a subject that has no issuer among the certificates left ("unresolved").
\* left is what remains of the working chain, path the issuers taken out of
\* it, in order.
RECURSIVE WalkEnd(_, _, _, _, _)
WalkEnd(d, in, cert, depth, path) ==
  IF \A i \in 1 .. Len(in) : in[i].subject # cert.issuer
  THEN [kind |-> "unresolved", cert |-> cert, depth |-> depth, left |-> in, path |-> path]
  ELSE LET i == CHOOSE k \in 1 .. Len(in) :
                  /\ in[k].subject = cert.issuer
                  /\ \A j \in 1 .. k - 1 : in[j].subject # cert.issuer
           ca == in[i]
           rest == [k \in 1 .. Len(in) - 1 |-> IF k < i THEN in[k] ELSE in[k + 1]] IN
       IF RefMatch(d, SSL_DANE_USAGE_TRUSTED_CA, ca)
       THEN [kind |-> "matched", cert |-> ca, depth |-> depth + 1, left |-> rest,
             path |-> Append(path, ca)]
       ELSE IF ca.subject = ca.issuer
       THEN [kind |-> "selfsigned", cert |-> ca, depth |-> depth + 1, left |-> rest,
             path |-> Append(path, ca)]
       ELSE WalkEnd(d, rest, ca, depth + 1, Append(path, ca))

\* The registered anchor certificates that name-issue s and verify its
\* signature, and the registered anchor keys that verify it, by place.
SigningCerts(d, s) ==
  { i \in 1 .. Len(d.certs) :
      /\ Cert(d.certs[i]).subject = s.issuer
      /\ Cert(d.certs[i]).pubkey # NoKey /\ Cert(d.certs[i]).pubkey = s.sigkey }
SigningKeys(d, s) == { i \in 1 .. Len(d.pkeys) : d.pkeys[i] = s.sigkey }
First(S) == CHOOSE i \in S : \A j \in S : i <= j

\* The certificates a step added to the accumulators of the connection.
Added ==
  { dane'.roots[i] : i \in Len(dane.roots) + 1 .. Len(dane'.roots) }
    \cup { dane'.chain[i] : i \in Len(dane.chain) + 1 .. Len(dane'.chain) }

Count(tr, name) == Cardinality(Positions(tr, name))

\* C22: in a verification that runs the chain walker, the signature
\* fallback ta_signed runs exactly when the leaf is not self-signed and the
\* walk ends, unmatched, with a subject that has no issuer left; it reports
\* a match iff an anchor certificate issues and verifies that subject or an
\* anchor key verifies it; it wraps exactly one anchor, the first
\* certificate that verifies, or with no such certificate the first key.
C22_FallbackWhenUnresolved ==
  [][(VerifyStep /\ TraceHas(ctx'.tr, "set_trust_anchor"))
       => LET e == WalkEnd(dane, ctx.untrusted, ctx.cert, 0, << >>)
              C == SigningCerts(dane, e.cert)
              K == SigningKeys(dane, e.cert) IN
          /\ TraceHas(ctx'.tr, "ta_signed")
               <=> (ctx.cert.subject # ctx.cert.issuer /\ e.kind = "unresolved")
          /\ TraceHas(ctx'.tr, "ta_signed")
               => /\ TraceHas(ctx'.tr, "matched_ta") <=> (C \cup K # {})
                  /\ Count(ctx'.tr, "wrap_cert") = IF C # {} THEN 1 ELSE 0
                  /\ (C = {}) => Count(ctx'.tr, "wrap_key") = IF K # {} THEN 1 ELSE 0
                  /\ (C # {}) =>
                       /\ \E c \in Added : c.id = dane.certs[First(C)]
                       /\ \A c \in Added : c.id = 0 => c.pubkey \notin {dane.pkeys[i] : i \in K}
                       /\ \A j \in 1 .. Len(dane.certs) :
                            dane.certs[j] # dane.certs[First(C)]
                              => \A c \in Added : c.id # dane.certs[j]
                  /\ (C = {} /\ K # {}) =>
                       /\ \E c \in Added : c.id = 0 /\ c.pubkey = dane.pkeys[First(K)]
                       /\ \A j \in K : dane.pkeys[j] # dane.pkeys[First(K)]
                            => \A c \in Added : c.pubkey # dane.pkeys[j]]_vars

\* The fallback looked at an anchor certificate that names the issuer of
\* the subject but did not sign it, went on, and wrapped the next one.
C22_Witness ==
  /\ Verified /\ TraceHas(ctx.tr, "ta_signed") /\ TraceHas(ctx.tr, "wrap_cert")
  /\ TraceHas(ctx.tr, "matched_ta")
  /\ Len(dane.certs) = 2 /\ dane.certs[1] = 5 /\ dane.certs[2] = 2
  /\ ctx.cert = Cert(1)

\* How many times c occurs in the sequence s.
Occurrences(s, c) == Cardinality({ i \in 1 .. Len(s) : s[i] = c })

\* C23: the chain walk ends after at most as many iterations as the peer
\* sent certificates, whatever the chain (duplicates, issuer cycles): the
\* issuers it took are the issuing path from the leaf, each certificate of
\* the peer's chain is taken at most as often as it was sent, the unmatched
\* ones are recorded in dane->chain in that order, and the depth the walk
\* counted is the number of issuers it had taken (seen in the depth that
\* wrap_key records for the fallback, one more than the count, and for a
\* key match, the count itself).
C23_WalkConsumesEachIssuerOnce ==
  [][(VerifyStep /\ TraceHas(ctx'.tr, "set_trust_anchor")
        /\ ctx.cert.subject # ctx.cert.issuer)
       => LET Walk(e) ==
                LET consumed == Len(ctx.untrusted) - Len(e.left)
                    kept == IF e.kind = "matched" THEN consumed - 1 ELSE consumed
                    newchain == SubSeq(dane'.chain, Len(dane.chain) + 1, Len(dane'.chain)) IN
                /\ consumed <= Len(ctx.untrusted)
                /\ Len(newchain) >= kept
                /\ SubSeq(newchain, 1, kept) = SubSeq(e.path, 1, kept)
                /\ \A k \in 1 .. kept :
                     Occurrences(SubSeq(newchain, 1, kept), newchain[k])
                       <= Occurrences(ctx.untrusted, newchain[k])
                /\ (dane.depth < 0 /\ TraceHas(ctx'.tr, "wrap_key")
                      /\ ~TraceHas(ctx'.tr, "wrap_cert"))
                     => dane'.depth = IF e.kind = "unresolved" THEN consumed + 1 ELSE consumed IN
          Walk(WalkEnd(dane, ctx.untrusted, ctx.cert, 0, << >>))]_vars

\* The peer sent an issuer cycle, "xa" issued by "xb" issued by "xa": the
\* walk took both certificates and stopped, and the fallback ran for the
\* subject at depth 2.
C23_Witness ==
  /\ Verified /\ ctx.cert = Cert(7)
  /\ Len(dane.chain) >= 2
  /\ SubSeq(dane.chain, 1, 2) = <<Cert(8), Cert(7)>>
  /\ TraceHas(ctx.tr, "ta_signed")

\* The certificates of id that a step added to a sequence.
NewOf(before, after, ids) ==
  Cardinality({ i \in Len(before) + 1 .. Len(after) : after[i].id \in ids })

\* C24: one verification makes at most three synthesis calls, nested in
\* this order: wrap_cert at most once, wrap_key with a key at most once,
\* wrap_key without a key at most once and only from inside wrap_key; they
\* add at most two fabricated certificates to dane->roots and dane->chain,
\* beside the copy of the anchor, whatever the authority key identifiers of
\* the certificates say.
C24_SynthesisIsBounded ==
  [][VerifyStep
       => /\ Count(ctx'.tr, "wrap_cert") <= 1
          /\ Count(ctx'.tr, "wrap_key") <= 1
          /\ Count(ctx'.tr, "wrap_key(0)") <= 1
          /\ \A i \in Positions(ctx'.tr, "wrap_key(0)") :
               i > 1 /\ ctx'.tr[i - 1][1] = "wrap_key"
          /\ \A i \in Positions(ctx'.tr, "wrap_key"), j \in Positions(ctx'.tr, "wrap_cert") :
               i = j + 1
          /\ NewOf(dane.roots, dane'.roots, {0}) + NewOf(dane.chain, dane'.chain, {0}) <= 2
          /\ Count(ctx'.tr, "wrap_cert") = 0
               => NewOf(dane.roots, dane'.roots, {0}) + NewOf(dane.chain, dane'.chain, {0})
                    <= Count(ctx'.tr, "wrap_key") + Count(ctx'.tr, "wrap_key(0)")]_vars

\* An anchor certificate whose authority key identifier names another
\* issuer matched: wrap_cert copied it, wrap_key fabricated its issuer and,
\* called by itself with no key, the root above that.
C24_Witness ==
  /\ Verified
  /\ \E i \in 1 .. Len(ctx.tr) - 2 :
       /\ ctx.tr[i][1] = "wrap_cert"
       /\ ctx.tr[i + 1][1] = "wrap_key"
       /\ ctx.tr[i + 2][1] = "wrap_key(0)"
  /\ ctx.ret > 0

SelfIssued(c) == c.subject = c.issuer
\* Made by the synthesizer: fabricated (id 0) or a copy of an anchor signed
\* again with the internal key.
Synthesized(c) == c.id = 0 \/ c.sigkey = SignKeyId
NewRoots == { dane'.roots[i] : i \in Len(dane.roots) + 1 .. Len(dane'.roots) }
NewChain == { dane'.chain[i] : i \in Len(dane.chain) + 1 .. Len(dane'.chain) }

\* A verification in signing mode that ends in this step wrapped an anchor.
SynthesisStep == VerifyStep /\ wrap_signed /\ TraceHas(ctx'.tr, "matched_ta")

\* The invariant of C25: roots holds self-issued certificates only, and what
\* the synthesizer made and is not self-issued is in the chain.
RootsAreSelfIssued ==
  /\ \A i \in 1 .. Len(dane'.roots) : SelfIssued(dane'.roots[i])
  /\ \A c \in NewChain : Synthesized(c) => ~SelfIssued(c)
  /\ \A c \in NewRoots \cup NewChain :
       (Synthesized(c) /\ ~SelfIssued(c)) => (c \in NewChain /\ c \notin NewRoots)

\* The anchor certificate that wrap_cert copied in this step, NoCert when
\* it copied none.
CopiedAnchor ==
  IF \E c \in NewChain : c.id # 0 /\ c.sigkey = SignKeyId /\ TraceHas(ctx'.tr, "wrap_cert")
  THEN CHOOSE c \in NewChain : c.id # 0 /\ c.sigkey = SignKeyId
  ELSE NoCert

\* C25 as stated: after a successful synthesis in signing mode roots holds
\* self-issued certificates only and every synthesized certificate that is
\* not self-issued is in the chain; wrap_cert puts a self-signed anchor into
\* roots and otherwise a copy of the anchor into the chain and the wrapper
\* of the copy into roots.
C25_WrapperOfCopyInRoots ==
  [][SynthesisStep
       => /\ RootsAreSelfIssued
          /\ CopiedAnchor # NoCert
               => \E r \in NewRoots :
                    r.id = 0 /\ r.subject = CopiedAnchor.issuer /\ r.pubkey = SignKeyId]_vars

\* C25, amended: the same invariant; the wrapper of the copy goes where
\* wrap_key puts any fabricated certificate: into roots when it is
\* self-issued, and when the authority key identifier of the anchor names
\* another issuer, into the chain, with a fabricated self-issued root for that
\* issuer in roots.
C25_SelfIssuedInRootsOthersInChain ==
  [][SynthesisStep
       => /\ RootsAreSelfIssued
          /\ CopiedAnchor # NoCert
               => LET a == CopiedAnchor
                      foreign == a.akid_issuer # NoName /\ a.akid_issuer # a.issuer IN
                  /\ ~SelfIssued(a)
                  /\ ~foreign =>
                       \E r \in NewRoots :
                         r.id = 0 /\ r.subject = a.issuer /\ r.pubkey = SignKeyId
                  /\ foreign =>
                       /\ \E c \in NewChain :
                            /\ c.id = 0 /\ c.subject = a.issuer /\ c.issuer = a.akid_issuer
                            /\ c.pubkey = SignKeyId
                       /\ \E r \in NewRoots :
                            r.id = 0 /\ r.subject = a.akid_issuer /\ r.pubkey = SignKeyId
          /\ (TraceHas(ctx'.tr, "wrap_cert") /\ CopiedAnchor = NoCert)
               => \E r \in NewRoots : r.id # 0 /\ SelfIssued(r)]_vars

\* In signing mode the anchor certificate "xb", whose authority key
\* identifier names "root", was copied into the chain; its wrapper is in the
\* chain too and the root above the wrapper is in roots.
C25_Witness ==
  /\ Verified /\ wrap_signed /\ TraceHas(ctx.tr, "matched_ta")
  /\ \E i \in 1 .. Len(dane.chain) : dane.chain[i].id = 8 /\ dane.chain[i].sigkey = SignKeyId
  /\ \E i \in 1 .. Len(dane.chain) :
       dane.chain[i].id = 0 /\ dane.chain[i].subject = N_xa /\ dane.chain[i].issuer = N_root
  /\ \E i \in 1 .. Len(dane.roots) : dane.roots[i].id = 0 /\ dane.roots[i].subject = N_root

\* C26: after a verification in which the walker matched a record against
\* the issuer at depth d >= 1, dane->depth is d, for a certificate match as
\* for a key match; after a fallback match on the subject at depth d it is
\* d + 1; it is unset (-1) after a verification that matched no anchor.
C26_DepthOfTrustAnchor ==
  [][(VerifyStep /\ ctx.cert.subject # ctx.cert.issuer)
       => LET Depth(e) ==
                IF TraceHas(ctx'.tr, "matched_ta")
                THEN /\ e.kind = "matched" => dane'.depth = e.depth
                     /\ e.kind = "unresolved" => dane'.depth = e.depth + 1
                ELSE dane'.depth = -1 IN
          Depth(WalkEnd(dane, ctx.untrusted, ctx.cert, 0, << >>))]_vars

\* C27: a verification starts with empty accumulators, no trust-anchor
\* depth and no matched hostname, whatever earlier verifications of the
\* connection left, and it skips the usage-0/1 check of verify_chain only
\* if the walker matched a usage-2 anchor in this same verification.
C27_NothingCarriesOver ==
  [][VerifyStep
       => /\ dane.roots = << >> /\ ~dane.roots_alloc
          /\ dane.chain = << >>
          /\ dane.depth = -1
          /\ dane.mhost = NoName
          /\ (TraceHas(ctx'.tr, "verify_chain") /\ ~TraceHas(ctx'.tr, "usage_check"))
               => TraceHas(ctx'.tr, "matched_ta")]_vars

\* C28: a verification assigns to no process-wide variable: the statics of
\* the library (error-library id, extension-slot index, signing key and
\* digest, build mode, the trust object of grow_chain, the slot index that
\* verify_cert caches) are after the step what they were before it.
C28_VerificationWritesNoGlobal ==
  [][(ctx.active /\ ~ctx.done /\ ctx'.done)
       => /\ err_lib_dane' = err_lib_dane /\ dane_idx' = dane_idx
          /\ signkey' = signkey /\ signmd' = signmd /\ wrap_signed' = wrap_signed
          /\ trust' = trust
          /\ ssl_idx' = ssl_idx]_vars

\* C29: a call of SSL_dane_library_init comes to its result only when the
\* whole process-wide initialization has run (error-library id, signing key,
\* error strings, extension-slot index), and the calls that have returned
\* all returned the same result.
C29_NoReturnBeforeInitCompletes ==
  /\ \A t \in Threads :
       thr[t].pc = "result" => ninit = [lib |-> 1, key |-> 1, strings |-> 1, idx |-> 1]
  /\ \A t, u \in Threads :
       (thr[t].ncalls > 0 /\ thr[u].ncalls > 0) => thr[t].ret = thr[u].ret

\* The places of the stored usage-2 records that carry a full object (no
\* digest) of the given selector.
FullObjectPlaces(d, selector) ==
  { p \in Places(d, SSL_DANE_USAGE_TRUSTED_CA) :
      /\ RecordAt(d, SSL_DANE_USAGE_TRUSTED_CA, p)[1] = selector
      /\ RecordAt(d, SSL_DANE_USAGE_TRUSTED_CA, p)[2] = NoMD }

\* C30: the table of anchor certificates holds one entry for each stored
\* usage-2 record with selector Cert and no digest, the certificate its data
\* encodes, and nothing else; the table of anchor keys likewise for selector
\* SPKI.  Records with a digest, records of other usages, failed adds and
\* repeated adds leave no entry.
C30_AnchorTablesMatchStore ==
  LET CertRecs == FullObjectPlaces(dane, SSL_DANE_SELECTOR_CERT)
      KeyRecs == FullObjectPlaces(dane, SSL_DANE_SELECTOR_SPKI)
      DataAt(p) == RecordAt(dane, SSL_DANE_USAGE_TRUSTED_CA, p)[3] IN
  /\ Len(dane.certs) = Cardinality(CertRecs)
  /\ Len(dane.pkeys) = Cardinality(KeyRecs)
  /\ \A p \in CertRecs :
       Cardinality({ i \in 1 .. Len(dane.certs) :
                       i2d_X509(Cert(dane.certs[i])) = DataAt(p) }) = 1
  /\ \A p \in KeyRecs :
       Cardinality({ i \in 1 .. Len(dane.pkeys) :
                       i2d_PUBKEY(dane.pkeys[i]) = DataAt(p) }) = 1

\* The connection holds a full certificate and a full key of usage 2, each
\* cached once, and the last call added one of them again.
C30_Witness ==
  /\ HasDane(dane)
  /\ Len(dane.certs) = 1 /\ Len(dane.pkeys) = 1
  /\ RecordCount(dane) = 2
  /\ call.op = "add_tlsa" /\ call.ret = 1 /\ call.usage = 2 /\ call.mdname = NullName
  /\ call.selector = SSL_DANE_SELECTOR_CERT
  /\ dane.selectors[2][1].selector = SSL_DANE_SELECTOR_SPKI

\* C31: in each usage's list no two selector groups have the same selector
\* value (so there are at most two, and match, which extracts the bytes once
\* for each selector group and computes a digest once for each mtype group,
\* extracts at most twice per usage), and within a selector group no two
\* mtype groups have the same digest.
C31_OneGroupPerSelectorAndMtype ==
  \A u \in Usages :
    LET slist == dane.selectors[u] IN
    /\ Len(slist) <= 2
    /\ \A i, j \in 1 .. Len(slist) : slist[i].selector = slist[j].selector => i = j
    /\ \A i \in 1 .. Len(slist) :
         \A j, k \in 1 .. Len(slist[i].mtype) :
           slist[i].mtype[j].md = slist[i].mtype[k].md => j = k

====
